---- MODULE Spec2Model ----
(***************************************************************************)
(* Volunteer signup store (src/db.py): the five tables, the registry,      *)
(* catalog and assignment operations, and the read operations, as a state  *)
(* machine.  One action per db.py function, and delete_volunteer also one  *)
(* action per statement; the JSON column and the date arithmetic are       *)
(* computed as the code computes them.                                     *)
(***************************************************************************)
EXTENDS Integers, Sequences, FiniteSets, TLC

(***************************************************************************)
(* Bounds of the model.                                                    *)
(***************************************************************************)
MaxVolunteers == 2      \* volunteer rows ever inserted (AUTOINCREMENT ids 1..)
MaxServices == 2        \* service rows ever inserted
MaxSubservices == 2     \* sub-service rows ever inserted
MaxAssignments == 3     \* assignment rows ever inserted
MaxIdList == 2          \* length of a volunteer_ids argument
MaxDictLen == 1         \* keys of an assigned_dates argument
MaxDateList == 2        \* dates under one key of an assigned_dates argument
WindowDays == 31        \* days after WindowStart that an end date is drawn from
StartDays == 7          \* days after WindowStart that a start date is drawn from

(***************************************************************************)
(* Python and SQLite values.  A value is a record tagged by kind, so that  *)
(* None / NULL is distinct from an empty dict, an empty list or empty text.*)
(***************************************************************************)
PyNone == [kind |-> "None"]
PyDict(items) == [kind |-> "dict", items |-> items]
PyList(items) == [kind |-> "list", items |-> items]
SqlNull == [kind |-> "NULL"]
SqlText(members) == [kind |-> "json_object", members |-> members]
\* text of a JSON array, and text that is not JSON: what the column holds
\* when something other than this program has written it
SqlArrayText(items) == [kind |-> "json_array", items |-> items]
SqlJunkText == [kind |-> "not_json"]

\* A dict key: a Python str, an int (s is its decimal spelling) or None.
PyStr(s) == [t |-> "str", s |-> s]
PyInt(n) == [t |-> "int", s |-> ToString(n)]
PyNoneKey == [t |-> "None", s |-> "None"]

\* str(service_id) for an int service_id.
Str(n) == PyStr(ToString(n))

Range(seq) == {seq[i] : i \in 1..Len(seq)}

(***************************************************************************)
(* Python dict, kept as its items in insertion order (keys distinct).      *)
(***************************************************************************)
DictKeys(d) == {d.items[i][1] : i \in 1..Len(d.items)}

DictHas(d, k) == k \in DictKeys(d)

DictGet(d, k) == d.items[CHOOSE i \in 1..Len(d.items) : d.items[i][1] = k][2]

\* d[k] = v: overwrite in place, or append a new key
DictSet(d, k, v) ==
    IF DictHas(d, k)
    THEN PyDict([i \in 1..Len(d.items) |->
                   IF d.items[i][1] = k THEN <<k, v>> ELSE d.items[i]])
    ELSE PyDict(Append(d.items, <<k, v>>))

\* d.pop(k, None)
DictPop(d, k) == PyDict(SelectSeq(d.items, LAMBDA it : it[1] # k))

\* dict == dict: same keys with equal values, whatever the insertion order
DictEq(a, b) ==
    /\ a.kind = "dict" /\ b.kind = "dict"
    /\ DictKeys(a) = DictKeys(b)
    /\ \A k \in DictKeys(a) : DictGet(a, k) = DictGet(b, k)

\* truth value of an Optional[dict] / Optional[list] / Optional[str] column
Truthy(v) ==
    CASE v.kind = "None" -> FALSE
      [] v.kind = "NULL" -> FALSE
      [] v.kind = "dict" -> Len(v.items) > 0
      [] v.kind = "list" -> Len(v.items) > 0
      [] v.kind = "json_object" -> TRUE      \* any JSON text is a non-empty str
      [] v.kind = "json_array" -> TRUE
      [] v.kind = "not_json" -> TRUE

(***************************************************************************)
(* json.dumps / json.loads of the assigned_dates mapping.                  *)
(***************************************************************************)
\* json.dumps coerces a key to a JSON string: str as is, int by its decimal
\* spelling, None as "null".
JsonKey(k) == IF k.t = "None" THEN "null" ELSE k.s

\* json.dumps(dict): one member per item, in insertion order; two keys that
\* coerce to the same string give two members with that name.
JsonDumps(d) ==
    SqlText([i \in 1..Len(d.items) |-> <<JsonKey(d.items[i][1]), d.items[i][2]>>])

\* json.loads(object text): every key a str; a repeated name keeps the place of
\* its first member and the value of its last.
RECURSIVE LoadMembers(_, _)
LoadMembers(members, acc) ==
    IF members = <<>> THEN acc
    ELSE LoadMembers(Tail(members),
                     DictSet(acc, PyStr(Head(members)[1]), Head(members)[2]))

\* json.loads(text) of an object or an array
JsonLoads(text) ==
    IF text.kind = "json_array" THEN PyList(text.items)
    ELSE LoadMembers(text.members, PyDict(<<>>))

\* "json.loads(column) if column else None" inside "try / except Exception":
\* whether json.loads is called and returns
Loadable(column) == Truthy(column) /\ column.kind # "not_json"

(***************************************************************************)
(* Dates.  An ISO 8601 date string "YYYY-MM-DD" is the record of its three *)
(* fields; a datetime.date is its proleptic Gregorian ordinal.             *)
(***************************************************************************)
Iso(y, m, d) == [y |-> y, m |-> m, d |-> d]

IsLeap(y) == y % 4 = 0 /\ (y % 100 # 0 \/ y % 400 = 0)

DaysInMonth(y, m) ==
    IF m = 2 THEN (IF IsLeap(y) THEN 29 ELSE 28)
    ELSE IF m \in {4, 6, 9, 11} THEN 30 ELSE 31

DaysBeforeYear(y) ==
    (y - 1) * 365 + ((y - 1) \div 4) - ((y - 1) \div 100) + ((y - 1) \div 400)

RECURSIVE DaysBeforeMonth(_, _)
DaysBeforeMonth(y, m) ==
    IF m = 1 THEN 0 ELSE DaysBeforeMonth(y, m - 1) + DaysInMonth(y, m - 1)

\* datetime.fromisoformat accepts the string: month and day in range
IsoParsable(s) == s.m \in 1..12 /\ s.d \in 1..DaysInMonth(s.y, s.m)

\* datetime.fromisoformat(s).date(), as an ordinal
FromIso(s) == DaysBeforeYear(s.y) + DaysBeforeMonth(s.y, s.m) + s.d

\* date.weekday(): Monday is 0, Saturday is 5
Weekday(n) == (n + 6) % 7

WindowStart == Iso(2024, 5, 29)

WindowOrdinals == FromIso(WindowStart)..(FromIso(WindowStart) + WindowDays)

\* date.isoformat(), for the dates of the window
IsoTable ==
    [n \in WindowOrdinals |->
        CHOOSE s \in [y : {WindowStart.y, WindowStart.y + 1}, m : 1..12, d : 1..31] :
            IsoParsable(s) /\ FromIso(s) = n]

IsoFormat(n) == IsoTable[n]

\* the date strings an end date is drawn from
WindowDates == {IsoFormat(n) : n \in WindowOrdinals}

\* the date strings a start date is drawn from: every day of the week
StartDates ==
    {IsoFormat(n) : n \in {m \in WindowOrdinals : m <= FromIso(WindowStart) + StartDays}}

\* date strings used in volunteers' mappings and in assignments
SampleDates == {Iso(2024, 6, 1), Iso(2024, 6, 8)}

(***************************************************************************)
(* Input domains.                                                          *)
(***************************************************************************)
Names == {"Ann", "Bob"}
Emails == {"a@x", "b@x"}
ServiceNames == {"Kitchen", "Parking"}
SubserviceNames == {"Dishes"}

VolunteerIds == 1..MaxVolunteers
ServiceIds == 1..MaxServices
SubserviceIds == 1..MaxSubservices
AssignmentIds == 1..MaxAssignments

\* sequences over S of length at most n
SeqsUpTo(S, n) == UNION {[1..k -> S] : k \in 0..n}

Injective(seq) == \A i, j \in 1..Len(seq) : seq[i] = seq[j] => i = j

\* a date list argument: dates in the order selected, none repeated
DateLists == {l \in SeqsUpTo(SampleDates, MaxDateList) : Injective(l)}

\* the keys an assigned_dates argument may carry: str(id) as the signup form
\* builds it, the int id itself, and None as list_volunteers returns for a
\* legacy row
DictKeyDomain == {Str(1), Str(2), PyInt(1), PyNoneKey}

\* assigned_dates arguments: dicts of at most MaxDictLen distinct keys
Dicts ==
    {PyDict(items) : items \in
        {it \in SeqsUpTo(DictKeyDomain \X DateLists, MaxDictLen) :
            Injective([i \in 1..Len(it) |-> it[i][1]])}}

OptionalDicts == Dicts \cup {PyNone}

\* volunteer_ids arguments
IdLists == SeqsUpTo(VolunteerIds, MaxIdList)

(***************************************************************************)
(* State: the five tables as committed, SQLite's AUTOINCREMENT counters,   *)
(* the clock behind created_at, the holder of the database's write lock    *)
(* with its uncommitted tables, the position of each session inside a call *)
(* that is modelled statement by statement, and the last event: a call     *)
(* with what it returned or raised, or a garbage collection.               *)
(* Columns that no operation reads or computes with (phone, max_capacity,  *)
(* the never-written volunteers.service_id, created_at of the other four   *)
(* tables) are left out of the rows.                                       *)
(***************************************************************************)
VARIABLES volunteers, services, service_dates, subservices, assignments,
          seq, clock, writer, pending, pc, last

vars == <<volunteers, services, service_dates, subservices, assignments,
          seq, clock, writer, pending, pc, last>>

tables == <<volunteers, services, service_dates, subservices, assignments>>

\* admin sessions that may be inside a call at the same time
Sessions == {"s1", "s2"}

NoPending == [kind |-> "none"]

Idle == [at |-> "idle"]

\* A volunteers row written by an earlier version of the program: the scalar
\* assigned_date set, the mapping column NULL or an empty object.
LegacyRows ==
    {[id |-> 1, name |-> "Ann", email |-> "a@x", committed_weekly |-> FALSE,
      created_at |-> 0, assigned_date |-> d, assigned_dates |-> p] :
        d \in SampleDates, p \in {SqlNull, SqlText(<<>>)}}

\* a database created by this version: every table empty
InitFresh ==
    /\ volunteers = {}
    /\ services = {}
    /\ service_dates = {}
    /\ subservices = {}
    /\ assignments = {}
    /\ seq = [volunteers |-> 0, services |-> 0, service_dates |-> 0,
              subservices |-> 0, assignments |-> 0]
    /\ clock = 0
    /\ writer = "none"
    /\ pending = NoPending
    /\ pc = [s \in Sessions |-> Idle]
    /\ last = [op |-> "init_db", raised |-> "none"]

\* A volunteers row whose assigned_dates column holds text that is not a
\* serialized mapping: not JSON at all, or a JSON array.
CorruptRows ==
    {[id |-> 1, name |-> "Ann", email |-> "a@x", committed_weekly |-> FALSE,
      created_at |-> 0, assigned_date |-> d, assigned_dates |-> p] :
        d \in SampleDates \cup {SqlNull},
        p \in {SqlJunkText, SqlArrayText(<<>>), SqlArrayText(<<Iso(2024, 6, 1)>>)}}

\* a database in which something else has written such a row
InitCorrupt ==
    /\ \E r \in CorruptRows : volunteers = {r}
    /\ seq = [volunteers |-> 1, services |-> 0, service_dates |-> 0,
              subservices |-> 0, assignments |-> 0]
    /\ services = {}
    /\ service_dates = {}
    /\ subservices = {}
    /\ assignments = {}
    /\ clock = 0
    /\ writer = "none"
    /\ pending = NoPending
    /\ pc = [s \in Sessions |-> Idle]
    /\ last = [op |-> "init_db", raised |-> "none"]

\* a fresh database, or one that an earlier version left a volunteer in
Init ==
    /\ \/ volunteers = {} /\ seq = [volunteers |-> 0, services |-> 0,
                                    service_dates |-> 0, subservices |-> 0,
                                    assignments |-> 0]
       \/ \E r \in LegacyRows :
            /\ volunteers = {r}
            /\ seq = [volunteers |-> 1, services |-> 0, service_dates |-> 0,
                      subservices |-> 0, assignments |-> 0]
    /\ services = {}
    /\ service_dates = {}
    /\ subservices = {}
    /\ assignments = {}
    /\ clock = 0
    /\ writer = "none"
    /\ pending = NoPending
    /\ pc = [s \in Sessions |-> Idle]
    /\ last = [op |-> "init_db", raised |-> "none"]

(***************************************************************************)
(* The store connection.  Every function opens its own connection; the     *)
(* first INSERT, UPDATE or DELETE of a connection opens a transaction and  *)
(* takes the database's write lock, which commit() or close() gives back.  *)
(* A function that lets an exception of such a statement escape never      *)
(* closes its connection: the connection keeps the lock until the garbage  *)
(* collector finalises it.  A write of another connection then fails with  *)
(* sqlite3.OperationalError ("database is locked"); reads go on.           *)
(***************************************************************************)
\* the write statement of a call finds the lock taken and raises
Busy(event) ==
    /\ writer # "none"
    /\ UNCHANGED <<tables, seq, clock, writer, pending, pc>>
    /\ last' = event

\* the garbage collector finalises an abandoned connection, which rolls back
GcCollect ==
    /\ writer = "abandoned"
    /\ writer' = "none"
    /\ UNCHANGED <<tables, seq, clock, pending, pc>>
    /\ last' = [op |-> "gc", raised |-> "none"]

(***************************************************************************)
(* Volunteer registry: writes.                                             *)
(***************************************************************************)
EmailUniquePerName(rows) ==
    \A a, b \in rows : (a.email = b.email /\ a.name = b.name) => a.id = b.id

\* volunteers.email TEXT NOT NULL UNIQUE, as a condition on the table
EmailUnique(rows) == \A a, b \in rows : a.email = b.email => a.id = b.id

AddVolunteerJsonDropEmpty(assigned_dates) ==
    IF Truthy(assigned_dates)
    THEN LET kept == PyDict(SelectSeq(assigned_dates.items, LAMBDA it : it[2] # <<>>))
         IN  IF Truthy(kept) THEN JsonDumps(kept) ELSE SqlNull
    ELSE SqlNull

\* add_volunteer's serialisation of its assigned_dates argument
AddVolunteerJson(assigned_dates) ==
    IF Truthy(assigned_dates) THEN JsonDumps(assigned_dates) ELSE SqlNull

\* add_volunteer(name, email, phone, assigned_dates, committed_weekly); now is
\* the reading of the clock for created_at
AddVolunteer(name, email, assigned_dates, committed_weekly, now) ==
    LET vid == seq.volunteers + 1
        row == [id |-> vid, name |-> name, email |-> email,
                committed_weekly |-> committed_weekly, created_at |-> now,
                assigned_date |-> SqlNull,
                assigned_dates |-> AddVolunteerJson(assigned_dates)]
    IN
    /\ now >= clock
    /\ IF writer # "none"
       THEN \* only sqlite3.IntegrityError is caught
            Busy([op |-> "add_volunteer", email |-> email,
                  raised |-> "OperationalError"])
       ELSE IF ~EmailUnique(volunteers \cup {row})
       THEN \* UNIQUE(email): the connection is closed, sqlite3.IntegrityError
            \* re-raised
            /\ UNCHANGED <<tables, seq, clock, writer, pending, pc>>
            /\ last' = [op |-> "add_volunteer", email |-> email,
                        raised |-> "IntegrityError"]
       ELSE /\ seq.volunteers < MaxVolunteers
            /\ clock' = now
            /\ volunteers' = volunteers \cup {row}
            /\ seq' = [seq EXCEPT !.volunteers = vid]
            /\ UNCHANGED <<services, service_dates, subservices, assignments,
                           writer, pending, pc>>
            /\ last' = [op |-> "add_volunteer", email |-> email,
                        arg |-> assigned_dates, raised |-> "none",
                        ret |-> [id |-> vid, name |-> name, email |-> email]]

\* assign_service's existing: {} at first; "json.loads(column) or {}" when the
\* row has a column text that json.loads accepts
AssignServiceExisting(column) ==
    IF Loadable(column) /\ Truthy(JsonLoads(column))
    THEN JsonLoads(column)
    ELSE PyDict(<<>>)

AssignServiceJsonKeepEmpty(column, service_id, assigned_dates_list) ==
    LET existing == AssignServiceExisting(column)
        updated == DictSet(existing, Str(service_id),
                           IF Truthy(assigned_dates_list)
                           THEN assigned_dates_list.items ELSE <<>>)
    IN  JsonDumps(updated)

AssignServiceJsonReplaceAll(column, service_id, assigned_dates_list) ==
    IF Truthy(assigned_dates_list)
    THEN JsonDumps(PyDict(<< <<Str(service_id), assigned_dates_list.items>> >>))
    ELSE SqlNull

\* assign_service's new value of the assigned_dates column, from the old one
AssignServiceJson(column, service_id, assigned_dates_list) ==
    LET existing == AssignServiceExisting(column)
        updated == IF Truthy(assigned_dates_list)
                   THEN DictSet(existing, Str(service_id), assigned_dates_list.items)
                   ELSE DictPop(existing, Str(service_id))
    IN  IF Truthy(updated) THEN JsonDumps(updated) ELSE SqlNull

\* existing[str(service_id)] = ... or existing.pop(str(service_id), None) on
\* a list: TypeError, before the UPDATE is reached; the SELECT took no lock
AssignServiceRaises(email) ==
    \E r \in volunteers :
        r.email = email /\ AssignServiceExisting(r.assigned_dates).kind # "dict"

\* assign_service(email, service_id, assigned_dates_list, committed_weekly)
AssignService(email, service_id, assigned_dates_list, committed_weekly) ==
    IF AssignServiceRaises(email)
    THEN /\ UNCHANGED <<tables, seq, clock, writer, pending, pc>>
         /\ last' = [op |-> "assign_service", email |-> email,
                     raised |-> "TypeError"]
    ELSE IF writer # "none"
    THEN Busy([op |-> "assign_service", email |-> email,
               raised |-> "OperationalError"])
    ELSE
    /\ volunteers' =
         {IF r.email = email
          THEN [r EXCEPT !.assigned_dates =
                           AssignServiceJson(r.assigned_dates, service_id,
                                             assigned_dates_list),
                         !.committed_weekly = committed_weekly]
          ELSE r : r \in volunteers}
    /\ UNCHANGED <<services, service_dates, subservices, assignments, seq, clock,
                   writer, pending, pc>>
    /\ last' = [op |-> "assign_service", email |-> email, service_id |-> service_id,
                arg |-> assigned_dates_list, raised |-> "none",
                ret |-> (\E r \in volunteers : r.email = email)]

(***************************************************************************)
(* assign_service statement by statement, for a session s that runs it     *)
(* while another session runs it too.                                      *)
(***************************************************************************)
\* get_conn(), the SELECT of the mapping and its decoding: a read, which
\* takes no write lock
AssignServiceSelect(s, email, service_id, assigned_dates_list) ==
    /\ pc[s] = Idle
    /\ IF AssignServiceRaises(email)
       THEN /\ UNCHANGED <<tables, seq, clock, writer, pending, pc>>
            /\ last' = [op |-> "assign_service", email |-> email,
                        raised |-> "TypeError"]
       ELSE /\ pc' = [pc EXCEPT ![s] =
                        [at |-> "loaded", email |-> email, service_id |-> service_id,
                         arg |-> assigned_dates_list,
                         column |-> IF \E r \in volunteers : r.email = email
                                    THEN (CHOOSE r \in volunteers :
                                            r.email = email).assigned_dates
                                    ELSE SqlNull]]
            /\ UNCHANGED <<tables, seq, clock, writer, pending, last>>

\* the UPDATE of the row with the mapping computed from what the SELECT
\* returned, commit(), close() and return changed > 0
AssignServiceUpdate(s) ==
    /\ pc[s].at = "loaded"
    /\ pc' = [pc EXCEPT ![s] = Idle]
    /\ IF writer # "none"
       THEN /\ UNCHANGED <<tables, seq, clock, writer, pending>>
            /\ last' = [op |-> "assign_service", email |-> pc[s].email,
                        raised |-> "OperationalError"]
       ELSE /\ volunteers' =
                 {IF r.email = pc[s].email
                  THEN [r EXCEPT !.assigned_dates =
                                   AssignServiceJson(pc[s].column, pc[s].service_id,
                                                     pc[s].arg),
                                 !.committed_weekly = FALSE]
                  ELSE r : r \in volunteers}
            /\ UNCHANGED <<services, service_dates, subservices, assignments, seq,
                           clock, writer, pending>>
            /\ last' = [op |-> "assign_service", email |-> pc[s].email,
                        service_id |-> pc[s].service_id, arg |-> pc[s].arg,
                        raised |-> "none",
                        ret |-> (\E r \in volunteers : r.email = pc[s].email)]

\* update_volunteer's serialisation of its assigned_dates argument
UpdateVolunteerJson(assigned_dates) ==
    IF Truthy(assigned_dates) THEN JsonDumps(assigned_dates) ELSE SqlNull

\* update_volunteer(volunteer_id, name, email, phone, assigned_dates, committed_weekly)
UpdateVolunteer(volunteer_id, name, email, assigned_dates, committed_weekly) ==
    LET updated ==
          {IF r.id = volunteer_id
           THEN [r EXCEPT !.name = name, !.email = email,
                          !.assigned_dates = UpdateVolunteerJson(assigned_dates),
                          !.committed_weekly = committed_weekly]
           ELSE r : r \in volunteers}
    IN
    IF writer # "none"
    THEN Busy([op |-> "update_volunteer", volunteer_id |-> volunteer_id,
               email |-> email, raised |-> "OperationalError"])
    ELSE
    /\ IF ~EmailUnique(updated)
       THEN \* UNIQUE(email): the UPDATE raises inside its transaction and the
            \* connection is never closed
            /\ UNCHANGED volunteers
            /\ writer' = "abandoned"
            /\ last' = [op |-> "update_volunteer", volunteer_id |-> volunteer_id,
                        email |-> email, raised |-> "IntegrityError"]
       ELSE /\ volunteers' = updated
            /\ UNCHANGED writer
            /\ last' = [op |-> "update_volunteer", volunteer_id |-> volunteer_id,
                        email |-> email, arg |-> assigned_dates, raised |-> "none",
                        ret |-> (\E r \in volunteers : r.id = volunteer_id)]
    /\ UNCHANGED <<services, service_dates, subservices, assignments, seq, clock,
                   pending, pc>>

DeleteAssignmentsOfNone(rows, volunteer_id) == rows

\* DELETE FROM subservice_assignments WHERE volunteer_id = ?
DeleteAssignmentsOf(rows, volunteer_id) ==
    {a \in rows : a.volunteer_id # volunteer_id}

\* DELETE FROM volunteers WHERE id = ?
DeleteVolunteerRow(rows, volunteer_id) == {r \in rows : r.id # volunteer_id}

\* delete_volunteer(volunteer_id): both DELETEs in one transaction, one commit
DeleteVolunteer(volunteer_id) ==
    IF writer # "none"
    THEN Busy([op |-> "delete_volunteer", volunteer_id |-> volunteer_id,
               raised |-> "OperationalError"])
    ELSE
    /\ assignments' = DeleteAssignmentsOf(assignments, volunteer_id)
    /\ volunteers' = DeleteVolunteerRow(volunteers, volunteer_id)
    /\ UNCHANGED <<services, service_dates, subservices, seq, clock,
                   writer, pending, pc>>
    /\ last' = [op |-> "delete_volunteer", volunteer_id |-> volunteer_id,
                raised |-> "none",
                ret |-> (\E r \in volunteers : r.id = volunteer_id)]

(***************************************************************************)
(* delete_volunteer statement by statement, for a session s that runs it   *)
(* while other sessions read and write.                                    *)
(***************************************************************************)
\* get_conn() and the first DELETE: the transaction opens on the committed
\* tables and takes the write lock, or finds it taken
DeleteVolunteerCascade(s, volunteer_id) ==
    /\ pc[s] = Idle
    /\ IF writer # "none"
       THEN Busy([op |-> "delete_volunteer", volunteer_id |-> volunteer_id,
                  raised |-> "OperationalError"])
       ELSE /\ writer' = s
            /\ pending' = [kind |-> "txn", volunteers |-> volunteers,
                           assignments |-> DeleteAssignmentsOf(assignments, volunteer_id)]
            /\ pc' = [pc EXCEPT ![s] = [at |-> "cascaded", volunteer_id |-> volunteer_id]]
            /\ UNCHANGED <<tables, seq, clock, last>>

\* the second DELETE, inside the same transaction; rowcount is what it deleted
DeleteVolunteerStatement(s) ==
    /\ pc[s].at = "cascaded"
    /\ pending' = [pending EXCEPT
                     !.volunteers = DeleteVolunteerRow(@, pc[s].volunteer_id)]
    /\ pc' = [pc EXCEPT ![s] =
                [at |-> "deleted", volunteer_id |-> pc[s].volunteer_id,
                 rowcount |-> Cardinality({r \in pending.volunteers :
                                             r.id = pc[s].volunteer_id})]]
    /\ UNCHANGED <<tables, seq, clock, writer, last>>

\* conn.commit(), conn.close(), return changed > 0
DeleteVolunteerCommit(s) ==
    /\ pc[s].at = "deleted"
    /\ volunteers' = pending.volunteers
    /\ assignments' = pending.assignments
    /\ writer' = "none"
    /\ pending' = NoPending
    /\ pc' = [pc EXCEPT ![s] = Idle]
    /\ UNCHANGED <<services, service_dates, subservices, seq, clock>>
    /\ last' = [op |-> "delete_volunteer", volunteer_id |-> pc[s].volunteer_id,
                raised |-> "none", ret |-> pc[s].rowcount > 0]

(***************************************************************************)
(* Service / sub-service catalog.                                          *)
(***************************************************************************)
\* services.name TEXT NOT NULL UNIQUE, as a condition on the table
ServiceNameUnique(rows) == \A a, b \in rows : a.name = b.name => a.id = b.id

\* "advance to next Saturday": while current.weekday() != 5 and current <= e
RECURSIVE AdvanceToSaturday(_, _)
AdvanceToSaturday(current, e) ==
    IF Weekday(current) # 5 /\ current <= e
    THEN AdvanceToSaturday(current + 1, e)
    ELSE current

RECURSIVE WeeklyBefore(_, _)
WeeklyBefore(current, e) ==
    IF current < e
    THEN <<IsoFormat(current)>> \o WeeklyBefore(current + 7, e)
    ELSE <<>>

\* while current <= e: insert current.isoformat(); current += 7 days
RECURSIVE WeeklyFrom(_, _)
WeeklyFrom(current, e) ==
    IF current <= e
    THEN <<IsoFormat(current)>> \o WeeklyFrom(current + 7, e)
    ELSE <<>>

\* the dates create_service inserts, in insertion order
GenerateDates(start_date, end_date) ==
    IF start_date # PyNone /\ end_date # PyNone
    THEN IF IsoParsable(start_date) /\ IsoParsable(end_date)
         THEN WeeklyFrom(AdvanceToSaturday(FromIso(start_date), FromIso(end_date)),
                         FromIso(end_date))
         ELSE <<>>      \* ValueError, swallowed by "except Exception: pass"
    ELSE <<>>

\* what create_service makes of its date arguments: "absent" when one is None
\* (no generation), "unparsable" when fromisoformat raises on one
DateArguments(start_date, end_date) ==
    IF start_date = PyNone \/ end_date = PyNone THEN "absent"
    ELSE IF IsoParsable(start_date) /\ IsoParsable(end_date) THEN "parsable"
    ELSE "unparsable"

\* create_service(name, max_capacity, start_date, end_date), as one call that
\* nothing interleaves: the service row is committed first, the dates follow in
\* a second transaction of the same connection, whose errors are swallowed
CreateService(name, start_date, end_date) ==
    LET sid == seq.services + 1
        dates == GenerateDates(start_date, end_date)
        row == [id |-> sid, name |-> name, start_date |-> start_date,
                end_date |-> end_date]
    IN
    IF writer # "none"
    THEN Busy([op |-> "create_service", name |-> name,
               dates |-> DateArguments(start_date, end_date),
               raised |-> "OperationalError"])
    ELSE IF ~ServiceNameUnique(services \cup {row})
    THEN \* UNIQUE(name): sqlite3.IntegrityError escapes and the connection is
         \* never closed
         /\ UNCHANGED <<tables, seq, clock, pending, pc>>
         /\ writer' = "abandoned"
         /\ last' = [op |-> "create_service", name |-> name,
                     dates |-> DateArguments(start_date, end_date),
                     raised |-> "IntegrityError"]
    ELSE /\ seq.services < MaxServices
         /\ services' = services \cup {row}
         /\ service_dates' = service_dates \cup
              {[id |-> seq.service_dates + i, service_id |-> sid, date |-> dates[i]] :
                 i \in 1..Len(dates)}
         /\ seq' = [seq EXCEPT !.services = sid,
                               !.service_dates = seq.service_dates + Len(dates)]
         /\ UNCHANGED <<volunteers, subservices, assignments, clock,
                        writer, pending, pc>>
         /\ last' = [op |-> "create_service", name |-> name,
                     dates |-> DateArguments(start_date, end_date),
                     start_date |-> start_date, end_date |-> end_date,
                     raised |-> "none", ret |-> sid]

(***************************************************************************)
(* create_service transaction by transaction, for a session s that runs it *)
(* while other sessions read and write.                                    *)
(***************************************************************************)
\* get_conn(), the INSERT INTO services and the first commit()
CreateServiceRow(s, name, start_date, end_date) ==
    LET sid == seq.services + 1
        row == [id |-> sid, name |-> name, start_date |-> start_date,
                end_date |-> end_date]
    IN
    /\ pc[s] = Idle
    /\ IF writer # "none"
       THEN Busy([op |-> "create_service", name |-> name,
                  dates |-> DateArguments(start_date, end_date),
                  raised |-> "OperationalError"])
       ELSE IF ~ServiceNameUnique(services \cup {row})
       THEN /\ UNCHANGED <<tables, seq, clock, pending, pc>>
            /\ writer' = "abandoned"
            /\ last' = [op |-> "create_service", name |-> name,
                        dates |-> DateArguments(start_date, end_date),
                        raised |-> "IntegrityError"]
       ELSE /\ seq.services < MaxServices
            /\ services' = services \cup {row}
            /\ seq' = [seq EXCEPT !.services = sid]
            /\ pc' = [pc EXCEPT ![s] =
                        [at |-> "created", sid |-> sid, name |-> name,
                         start_date |-> start_date, end_date |-> end_date]]
            /\ UNCHANGED <<volunteers, service_dates, subservices, assignments,
                           clock, writer, pending, last>>

\* the second transaction of the same connection: the INSERTs INTO
\* service_dates and their commit(), or the first INSERT finding the write
\* lock taken, its sqlite3.OperationalError swallowed by "except Exception:
\* pass"; then conn.close() and return sid
CreateServiceDates(s) ==
    LET sid == pc[s].sid
        dates == GenerateDates(pc[s].start_date, pc[s].end_date)
        refused == writer # "none" /\ Len(dates) > 0
    IN
    /\ pc[s].at = "created"
    /\ IF refused
       THEN UNCHANGED <<service_dates, seq>>
       ELSE /\ service_dates' = service_dates \cup
                 {[id |-> seq.service_dates + i, service_id |-> sid,
                   date |-> dates[i]] : i \in 1..Len(dates)}
            /\ seq' = [seq EXCEPT !.service_dates = seq.service_dates + Len(dates)]
    /\ pc' = [pc EXCEPT ![s] = Idle]
    /\ UNCHANGED <<volunteers, services, subservices, assignments, clock,
                   writer, pending>>
    /\ last' = [op |-> "create_service", name |-> pc[s].name,
                dates |-> DateArguments(pc[s].start_date, pc[s].end_date),
                start_date |-> pc[s].start_date, end_date |-> pc[s].end_date,
                raised |-> "none", ret |-> sid]

\* an update_service that regenerates the dates of the service it updates
UpdateServiceRegenerating(service_id, name, start_date, end_date) ==
    LET updated ==
          {IF s.id = service_id
           THEN [s EXCEPT !.name = name, !.start_date = start_date,
                          !.end_date = end_date]
           ELSE s : s \in services}
        dates == GenerateDates(start_date, end_date)
        found == \E s \in services : s.id = service_id
    IN
    /\ writer = "none"
    /\ ServiceNameUnique(updated)
    /\ services' = updated
    /\ service_dates' =
         IF found
         THEN {sd \in service_dates : sd.service_id # service_id} \cup
              {[id |-> seq.service_dates + i, service_id |-> service_id,
                date |-> dates[i]] : i \in 1..Len(dates)}
         ELSE service_dates
    /\ last' = [op |-> "update_service", service_id |-> service_id,
                raised |-> "none", ret |-> found]
    /\ UNCHANGED <<volunteers, subservices, assignments, seq, clock, writer,
                   pending, pc>>

\* update_service(service_id, name, max_capacity, start_date, end_date)
UpdateService(service_id, name, start_date, end_date) ==
    LET updated ==
          {IF s.id = service_id
           THEN [s EXCEPT !.name = name, !.start_date = start_date,
                          !.end_date = end_date]
           ELSE s : s \in services}
    IN
    IF writer # "none"
    THEN Busy([op |-> "update_service", service_id |-> service_id,
               raised |-> "OperationalError"])
    ELSE
    /\ IF ~ServiceNameUnique(updated)
       THEN /\ UNCHANGED services
            /\ writer' = "abandoned"
            /\ last' = [op |-> "update_service", service_id |-> service_id,
                        raised |-> "IntegrityError"]
       ELSE /\ services' = updated
            /\ UNCHANGED writer
            /\ last' = [op |-> "update_service", service_id |-> service_id,
                        raised |-> "none",
                        ret |-> (\E s \in services : s.id = service_id)]
    /\ UNCHANGED <<volunteers, service_dates, subservices, assignments, seq, clock,
                   pending, pc>>

SubservicesOfNone(rows, service_id) == {}

SubservicesOfAny(rows, service_id) == {b.id : b \in rows}

\* SELECT id FROM subservices WHERE service_id = ?
SubservicesOf(rows, service_id) ==
    {b.id : b \in {x \in rows : x.service_id = service_id}}

\* delete_service(service_id): dates, the sub-services' assignments, the
\* sub-services, the service, in one transaction
DeleteService(service_id) ==
    LET subs == SubservicesOf(subservices, service_id) IN
    IF writer # "none"
    THEN Busy([op |-> "delete_service", service_id |-> service_id,
               raised |-> "OperationalError"])
    ELSE
    /\ service_dates' = {sd \in service_dates : sd.service_id # service_id}
    /\ assignments' = {a \in assignments : a.subservice_id \notin subs}
    /\ subservices' = {b \in subservices : b.service_id # service_id}
    /\ services' = {s \in services : s.id # service_id}
    /\ UNCHANGED <<volunteers, seq, clock, writer, pending, pc>>
    /\ last' = [op |-> "delete_service", service_id |-> service_id,
                raised |-> "none",
                ret |-> (\E s \in services : s.id = service_id)]

\* create_subservice(service_id, name, max_capacity)
CreateSubservice(service_id, name) ==
    LET bid == seq.subservices + 1 IN
    IF writer # "none"
    THEN Busy([op |-> "create_subservice", service_id |-> service_id,
               raised |-> "OperationalError"])
    ELSE
    /\ seq.subservices < MaxSubservices
    /\ subservices' = subservices \cup
         {[id |-> bid, service_id |-> service_id, name |-> name]}
    /\ seq' = [seq EXCEPT !.subservices = bid]
    /\ UNCHANGED <<volunteers, services, service_dates, assignments, clock,
                   writer, pending, pc>>
    /\ last' = [op |-> "create_subservice", service_id |-> service_id,
                raised |-> "none", ret |-> bid]

\* update_subservice(subservice_id, name, max_capacity)
UpdateSubservice(subservice_id, name) ==
    IF writer # "none"
    THEN Busy([op |-> "update_subservice", subservice_id |-> subservice_id,
               raised |-> "OperationalError"])
    ELSE
    /\ subservices' =
         {IF b.id = subservice_id THEN [b EXCEPT !.name = name] ELSE b :
            b \in subservices}
    /\ UNCHANGED <<volunteers, services, service_dates, assignments, seq, clock,
                   writer, pending, pc>>
    /\ last' = [op |-> "update_subservice", subservice_id |-> subservice_id,
                raised |-> "none",
                ret |-> (\E b \in subservices : b.id = subservice_id)]

\* delete_subservice(subservice_id): its assignments first, in one transaction
DeleteSubservice(subservice_id) ==
    IF writer # "none"
    THEN Busy([op |-> "delete_subservice", subservice_id |-> subservice_id,
               raised |-> "OperationalError"])
    ELSE
    /\ assignments' = {a \in assignments : a.subservice_id # subservice_id}
    /\ subservices' = {b \in subservices : b.id # subservice_id}
    /\ UNCHANGED <<volunteers, services, service_dates, seq, clock,
                   writer, pending, pc>>
    /\ last' = [op |-> "delete_subservice", subservice_id |-> subservice_id,
                raised |-> "none",
                ret |-> (\E b \in subservices : b.id = subservice_id)]

(***************************************************************************)
(* Assignment engine.                                                      *)
(***************************************************************************)
\* rows that take over the completed flag of the volunteer's row for the key
InsertedAssignmentsKeepingCompleted(subservice_id, date_iso, volunteer_ids, first_id) ==
    {[id |-> first_id + i - 1, subservice_id |-> subservice_id,
      volunteer_id |-> volunteer_ids[i], date |-> date_iso,
      completed |-> \E old \in assignments :
                       /\ old.subservice_id = subservice_id /\ old.date = date_iso
                       /\ old.volunteer_id = volunteer_ids[i] /\ old.completed] :
        i \in 1..Len(volunteer_ids)}

\* the rows assign_subservice inserts: one per element of volunteer_ids, with
\* consecutive fresh ids and completed at its column default 0
InsertedAssignments(subservice_id, date_iso, volunteer_ids, first_id) ==
    {[id |-> first_id + i - 1, subservice_id |-> subservice_id,
      volunteer_id |-> volunteer_ids[i], date |-> date_iso, completed |-> FALSE] :
        i \in 1..Len(volunteer_ids)}

KeptAssignmentsNoDelete(rows, subservice_id, date_iso) == rows

KeptAssignmentsWholeDate(rows, subservice_id, date_iso) ==
    {a \in rows : a.date # date_iso}

\* the rows that survive assign_subservice's DELETE
KeptAssignments(rows, subservice_id, date_iso) ==
    {a \in rows : ~(a.subservice_id = subservice_id /\ a.date = date_iso)}

\* assign_subservice(subservice_id, date_iso, volunteer_ids)
AssignSubservice(subservice_id, date_iso, volunteer_ids) ==
    IF writer # "none"
    THEN Busy([op |-> "assign_subservice", subservice_id |-> subservice_id,
               date |-> date_iso, raised |-> "OperationalError"])
    ELSE
    /\ seq.assignments + Len(volunteer_ids) <= MaxAssignments
    /\ assignments' =
         KeptAssignments(assignments, subservice_id, date_iso) \cup
         InsertedAssignments(subservice_id, date_iso, volunteer_ids,
                             seq.assignments + 1)
    /\ seq' = [seq EXCEPT !.assignments = seq.assignments + Len(volunteer_ids)]
    /\ UNCHANGED <<volunteers, services, service_dates, subservices, clock,
                   writer, pending, pc>>
    /\ last' = [op |-> "assign_subservice", subservice_id |-> subservice_id,
                date |-> date_iso, volunteer_ids |-> volunteer_ids,
                raised |-> "none", ret |-> Len(volunteer_ids)]

(***************************************************************************)
(* assign_subservice statement by statement, for a session s that runs it  *)
(* while another session runs it too.                                      *)
(***************************************************************************)
\* an assign_subservice whose DELETE is committed on its own
AssignSubserviceDeleteAutocommit(s, subservice_id, date_iso, volunteer_ids) ==
    /\ pc[s] = Idle
    /\ writer = "none"
    /\ seq.assignments + Len(volunteer_ids) <= MaxAssignments
    /\ assignments' = KeptAssignments(assignments, subservice_id, date_iso)
    /\ writer' = s
    /\ pending' = [kind |-> "txn",
                   assignments |-> KeptAssignments(assignments, subservice_id, date_iso),
                   seq |-> seq.assignments]
    /\ pc' = [pc EXCEPT ![s] =
                [at |-> "assigning", subservice_id |-> subservice_id,
                 date |-> date_iso, volunteer_ids |-> volunteer_ids,
                 inserted |-> 0]]
    /\ UNCHANGED <<volunteers, services, service_dates, subservices, seq, clock, last>>

\* get_conn() and the DELETE: the transaction opens on the committed tables
\* and takes the write lock, or finds it taken
AssignSubserviceDelete(s, subservice_id, date_iso, volunteer_ids) ==
    /\ pc[s] = Idle
    /\ IF writer # "none"
       THEN Busy([op |-> "assign_subservice", subservice_id |-> subservice_id,
                  date |-> date_iso, raised |-> "OperationalError"])
       ELSE /\ seq.assignments + Len(volunteer_ids) <= MaxAssignments
            /\ writer' = s
            /\ pending' = [kind |-> "txn",
                           assignments |-> KeptAssignments(assignments, subservice_id,
                                                           date_iso),
                           seq |-> seq.assignments]
            /\ pc' = [pc EXCEPT ![s] =
                        [at |-> "assigning", subservice_id |-> subservice_id,
                         date |-> date_iso, volunteer_ids |-> volunteer_ids,
                         inserted |-> 0]]
            /\ UNCHANGED <<tables, seq, clock, last>>

\* one turn of "for vid in volunteer_ids": the INSERT, inside the transaction
AssignSubserviceInsert(s) ==
    /\ pc[s].at = "assigning"
    /\ pc[s].inserted < Len(pc[s].volunteer_ids)
    /\ pending' = [pending EXCEPT
                     !.assignments = @ \cup
                        InsertedAssignments(pc[s].subservice_id, pc[s].date,
                                            <<pc[s].volunteer_ids[pc[s].inserted + 1]>>,
                                            pending.seq + 1),
                     !.seq = @ + 1]
    /\ pc' = [pc EXCEPT ![s].inserted = @ + 1]
    /\ UNCHANGED <<tables, seq, clock, writer, last>>

\* conn.commit(), conn.close(), return inserted
AssignSubserviceCommit(s) ==
    /\ pc[s].at = "assigning"
    /\ pc[s].inserted = Len(pc[s].volunteer_ids)
    /\ assignments' = pending.assignments
    /\ seq' = [seq EXCEPT !.assignments = pending.seq]
    /\ writer' = "none"
    /\ pending' = NoPending
    /\ pc' = [pc EXCEPT ![s] = Idle]
    /\ UNCHANGED <<volunteers, services, service_dates, subservices, clock>>
    /\ last' = [op |-> "assign_subservice", subservice_id |-> pc[s].subservice_id,
                date |-> pc[s].date, volunteer_ids |-> pc[s].volunteer_ids,
                replaced |-> assignments \ KeptAssignments(assignments,
                                                           pc[s].subservice_id,
                                                           pc[s].date),
                raised |-> "none", ret |-> pc[s].inserted]

\* mark_assignment_completed(assignment_id, completed)
MarkAssignmentCompleted(assignment_id, completed) ==
    IF writer # "none"
    THEN Busy([op |-> "mark_assignment_completed", assignment_id |-> assignment_id,
               raised |-> "OperationalError"])
    ELSE
    /\ assignments' =
         {IF a.id = assignment_id THEN [a EXCEPT !.completed = completed] ELSE a :
            a \in assignments}
    /\ UNCHANGED <<volunteers, services, service_dates, subservices, seq, clock,
                   writer, pending, pc>>
    /\ last' = [op |-> "mark_assignment_completed", assignment_id |-> assignment_id,
                completed |-> completed, raised |-> "none",
                ret |-> (\E a \in assignments : a.id = assignment_id)]

(***************************************************************************)
(* Volunteer registry: reads.  A result list is given as the set of the    *)
(* row orders its ORDER BY allows (rows that tie may come in either order).*)
(***************************************************************************)
\* the sequences that list every element of S once, a before b whenever
\* Before(a, b)
Orderings(S, Before(_, _)) ==
    {f \in [1..Cardinality(S) -> S] :
        /\ Injective(f)
        /\ \A i, j \in 1..Cardinality(S) : i < j => ~Before(f[j], f[i])}

\* the legacy mapping {None: [assigned_date]}
LegacyDict(assigned_date) == PyDict(<< <<PyNoneKey, <<assigned_date>> >> >>)

ListVolunteersDecodeScalarFirst(r) ==
    IF r.assigned_date # SqlNull
    THEN PyDict(<< <<PyNoneKey, <<r.assigned_date>> >> >>)
    ELSE IF Loadable(r.assigned_dates) THEN JsonLoads(r.assigned_dates) ELSE PyNone

\* list_volunteers: the assigned_dates of a row
ListVolunteersDecode(r) ==
    LET loaded == IF Loadable(r.assigned_dates) THEN JsonLoads(r.assigned_dates)
                  ELSE PyNone
    IN  IF ~Truthy(loaded) /\ r.assigned_date # SqlNull
        THEN LegacyDict(r.assigned_date)
        ELSE loaded

ListVolunteersRow(r) ==
    [id |-> r.id, name |-> r.name, email |-> r.email,
     committed_weekly |-> r.committed_weekly,
     assigned_dates |-> ListVolunteersDecode(r), created_at |-> r.created_at]

\* list_volunteers(): ORDER BY created_at DESC
ListVolunteers ==
    {[i \in 1..Len(o) |-> ListVolunteersRow(o[i])] :
        o \in Orderings(volunteers, LAMBDA a, b : a.created_at > b.created_at)}

\* get_volunteer_by_email: the assigned_dates of the row
GetVolunteerDecode(r) ==
    LET loaded == IF Loadable(r.assigned_dates) THEN JsonLoads(r.assigned_dates)
                  ELSE PyNone
    IN  IF ~Truthy(loaded) /\ r.assigned_date # SqlNull
        THEN LegacyDict(r.assigned_date)
        ELSE loaded

\* get_volunteer_by_email(email)
GetVolunteerByEmail(email) ==
    IF \E r \in volunteers : r.email = email
    THEN LET r == CHOOSE x \in volunteers : x.email = email IN
         [kind |-> "volunteer", id |-> r.id, name |-> r.name, email |-> r.email,
          committed_weekly |-> r.committed_weekly,
          assigned_dates |-> GetVolunteerDecode(r), created_at |-> r.created_at]
    ELSE PyNone

FoundForDateMappingFirst(r, date_iso) ==
    LET ad == IF Loadable(r.assigned_dates) THEN JsonLoads(r.assigned_dates)
              ELSE PyNone
    IN  IF Truthy(ad)
        THEN \E i \in 1..Len(ad.items) : date_iso \in Range(ad.items[i][2])
        ELSE r.assigned_date # SqlNull /\ r.assigned_date = date_iso

\* volunteers_by_date: whether the row is found for date_iso
FoundForDate(r, date_iso) ==
    LET ad == IF Loadable(r.assigned_dates) THEN JsonLoads(r.assigned_dates)
              ELSE PyNone
        inMapping == /\ Truthy(ad) /\ ad.kind = "dict"
                     /\ \E i \in 1..Len(ad.items) : date_iso \in Range(ad.items[i][2])
    IN  \/ inMapping
        \/ r.assigned_date # SqlNull /\ r.assigned_date = date_iso

\* volunteers_by_date: "for sid, dates in ad.items()" on a list raises
\* AttributeError, outside the try
VolunteersByDateRaises(date_iso) ==
    \E r \in volunteers :
        LET ad == IF Loadable(r.assigned_dates) THEN JsonLoads(r.assigned_dates)
                  ELSE PyNone
        IN  Truthy(ad) /\ ad.kind # "dict"

\* volunteers_by_date(date_iso): ORDER BY name
VolunteersByDate(date_iso) ==
    \* the value returned, when VolunteersByDateRaises is false
    LET found == {r \in volunteers : FoundForDate(r, date_iso)}
        \* Names are compared as SQLite compares TEXT; the names of the model
        \* are ordered as listed here
        rank == [n \in Names |-> IF n = "Ann" THEN 1 ELSE 2]
    IN  {[i \in 1..Len(o) |->
            [id |-> o[i].id, name |-> o[i].name, email |-> o[i].email,
             committed_weekly |-> o[i].committed_weekly,
             created_at |-> o[i].created_at]] :
         o \in Orderings(found, LAMBDA a, b : rank[a.name] < rank[b.name])}

\* report_volunteers: the assigned_dates of a row, before the service filter
ReportDecode(r) ==
    LET loaded == IF Loadable(r.assigned_dates) THEN JsonLoads(r.assigned_dates)
                  ELSE PyNone
    IN  IF ~Truthy(loaded) /\ r.assigned_date # SqlNull
        THEN LegacyDict(r.assigned_date)
        ELSE loaded

\* report_volunteers: whether the service filter keeps the row
ReportKeeps(r, service_id) ==
    \/ service_id = PyNone
    \/ /\ Truthy(ReportDecode(r))
       /\ IF ReportDecode(r).kind = "dict"
          THEN DictHas(ReportDecode(r), Str(service_id.n))
          ELSE Str(service_id.n) \in Range(ReportDecode(r).items)

ReportDatesUnnarrowed(r, service_id) == ReportDecode(r)

\* report_volunteers: the assigned_dates returned for a kept row
ReportDates(r, service_id) ==
    IF service_id = PyNone
    THEN ReportDecode(r)
    ELSE PyDict(<< <<Str(service_id.n),
                     DictGet(ReportDecode(r), Str(service_id.n))>> >>)

\* report_volunteers(service_id, start_date, end_date): ORDER BY created_at
\* DESC; service_id is PyNone or [n |-> id], the timestamps likewise
ReportVolunteers(service_id, start_date, end_date) ==
    LET inRange == {r \in volunteers :
                      /\ start_date = PyNone \/ r.created_at >= start_date.n
                      /\ end_date = PyNone \/ r.created_at <= end_date.n}
        kept == {r \in inRange : ReportKeeps(r, service_id)}
    IN  {[i \in 1..Len(o) |->
            [id |-> o[i].id, name |-> o[i].name, email |-> o[i].email,
             assigned_dates |-> ReportDates(o[i], service_id),
             committed_weekly |-> o[i].committed_weekly,
             created_at |-> o[i].created_at]] :
         o \in Orderings(kept, LAMBDA a, b : a.created_at > b.created_at)}

(***************************************************************************)
(* Assignment reads and the admin reports built on them (ui.py).           *)
(***************************************************************************)
\* the name the LEFT JOIN gives an assignment row, as its rank in ORDER BY:
\* NULL (no such volunteer) sorts first
JoinedNameRank(a) ==
    IF \E v \in volunteers : v.id = a.volunteer_id
    THEN IF (CHOOSE v \in volunteers : v.id = a.volunteer_id).name = "Ann" THEN 1 ELSE 2
    ELSE 0

\* list_subservice_assignments(subservice_id, date_iso): each filter is PyNone
\* or a value; ORDER BY a.date, v.name.  The joined volunteer_name and
\* volunteer_email of a row are left out: no report reads them.
ListSubserviceAssignments(subservice_id, date_iso) ==
    LET kept == {a \in assignments :
                   /\ subservice_id = PyNone \/ a.subservice_id = subservice_id.n
                   /\ date_iso = PyNone \/ a.date = date_iso}
    IN  {[i \in 1..Len(o) |->
            [id |-> o[i].id, subservice_id |-> o[i].subservice_id,
             volunteer_id |-> o[i].volunteer_id, date |-> o[i].date,
             completed |-> o[i].completed]] :
         o \in Orderings(kept, LAMBDA a, b :
                \/ FromIso(a.date) < FromIso(b.date)
                \/ a.date = b.date /\ JoinedNameRank(a) < JoinedNameRank(b))}

UniqueSubservicesCompletedOnly(assigns, vid) ==
    {assigns[i].subservice_id :
        i \in {j \in 1..Len(assigns) :
                 assigns[j].volunteer_id = vid /\ assigns[j].completed}}

\* vol_subservice_set.get(vid, set()) after the loop over the assignments
UniqueSubservices(assigns, vid) ==
    {assigns[i].subservice_id :
        i \in {j \in 1..Len(assigns) : assigns[j].volunteer_id = vid}}

CompletedCountAnyFlag(assigns, vid) ==
    Cardinality({i \in 1..Len(assigns) : assigns[i].volunteer_id = vid})

\* vol_completed_count.get(vid, 0) after the loop over the assignments
CompletedCount(assigns, vid) ==
    Cardinality({i \in 1..Len(assigns) :
                   assigns[i].volunteer_id = vid /\ assigns[i].completed})

\* num_completed >= 3
FeeThreshold == 3

\* one row of the eligibility report
EligibilityRow(v, assigns) ==
    [id |-> v.id, name |-> v.name, email |-> v.email,
     no_of_subservices |-> Cardinality(UniqueSubservices(assigns, v.id)),
     no_of_completed_services |-> CompletedCount(assigns, v.id),
     eligibility |-> IF Cardinality(UniqueSubservices(assigns, v.id)) >= FeeThreshold
                     THEN "Eligible for Vol. Fees return" ELSE ""]

\* rows.sort(key=no_of_subservices, reverse=True): descending by the key, rows
\* of equal key in the order they had
SortedDescending(rows) ==
    LET n == Len(rows)
        p == CHOOSE f \in [1..n -> 1..n] :
               /\ Injective(f)
               /\ \A i, j \in 1..n : i < j =>
                     \/ rows[f[i]].no_of_subservices > rows[f[j]].no_of_subservices
                     \/ /\ rows[f[i]].no_of_subservices = rows[f[j]].no_of_subservices
                        /\ f[i] < f[j]
    IN  [i \in 1..n |-> rows[p[i]]]

\* "Generate Eligibility Report": the rows shown, for each order in which
\* list_volunteers and list_subservice_assignments may return theirs
EligibilityReport ==
    {SortedDescending([i \in 1..Len(all_vols) |-> EligibilityRow(all_vols[i], all_assigns)]) :
        all_vols \in ListVolunteers,
        all_assigns \in ListSubserviceAssignments(PyNone, PyNone)}

\* "Generate Report" for a service date: one row per volunteer of
\* volunteers_by_date, nothing when there is none.  The services and
\* subservices columns, names shown for the row, are left out.
RosterForDate(date_iso) ==
    {IF Len(vols) > 0
     THEN [i \in 1..Len(vols) |->
             [name |-> vols[i].name, email |-> vols[i].email,
              no_of_completed_services |-> CompletedCount(assigns, vols[i].id)]]
     ELSE <<>> :
        vols \in VolunteersByDate(date_iso),
        assigns \in ListSubserviceAssignments(PyNone, date_iso)}

(***************************************************************************)
(* Volunteer Assign tab (ui.py): "Save Assignments" for a service date.     *)
(* vols is the volunteers_by_date list the form was built from; sel gives  *)
(* each listed volunteer id the sub-service chosen in its selectbox, PyNone *)
(* for the blank option or [n |-> id]; comp gives it the checkbox.  The     *)
(* labels of the selectbox, "name (service id)", are taken to be distinct.  *)
(***************************************************************************)
\* the keys of assigns_by_sub in the order setdefault inserted them
RECURSIVE SelectedOrder(_, _)
SelectedOrder(choices, seen) ==
    IF choices = <<>> THEN <<>>
    ELSE IF Head(choices) = PyNone \/ Head(choices).n \in seen
         THEN SelectedOrder(Tail(choices), seen)
         ELSE <<Head(choices).n>> \o
              SelectedOrder(Tail(choices), seen \cup {Head(choices).n})

\* assigns_by_sub[sub_id]: the listed volunteers that chose it, in list order
SelectedVolunteers(vols, sel, sub_id) ==
    LET chose == SelectSeq(vols, LAMBDA v : sel[v.id] # PyNone /\ sel[v.id].n = sub_id)
    IN  [i \in 1..Len(chose) |-> chose[i].id]

\* "for sub_id, vids in assigns_by_sub.items(): db.assign_subservice(...)"
RECURSIVE AssignEach(_, _, _, _, _, _)
AssignEach(order, date_iso, vols, sel, rows, next) ==
    IF order = <<>> THEN [rows |-> rows, next |-> next]
    ELSE LET vids == SelectedVolunteers(vols, sel, Head(order)) IN
         AssignEach(Tail(order), date_iso, vols, sel,
                    KeptAssignments(rows, Head(order), date_iso) \cup
                    InsertedAssignments(Head(order), date_iso, vids, next + 1),
                    next + Len(vids))

\* desired_completed_map.get(vid, False)
DesiredCompleted(vols, comp, vid) ==
    IF \E i \in 1..Len(vols) : vols[i].id = vid THEN comp[vid] ELSE FALSE

\* the mark_assignment_completed calls on the rows of the date whose flag
\* differs from the checkbox
ApplyCompleted(rows, date_iso, vols, comp) ==
    {IF a.date = date_iso /\ a.completed # DesiredCompleted(vols, comp, a.volunteer_id)
     THEN [a EXCEPT !.completed = DesiredCompleted(vols, comp, a.volunteer_id)]
     ELSE a : a \in rows}

\* the handler of the submitted form; a call that raises is reported on the
\* page and the handler goes on
SaveAssignments(date_iso, vols, sel, comp) ==
    LET choices == [i \in 1..Len(vols) |-> sel[vols[i].id]]
        saved == AssignEach(SelectedOrder(choices, {}), date_iso, vols, sel,
                            assignments, seq.assignments)
    IN
    /\ vols \in VolunteersByDate(date_iso)
    /\ Len(vols) > 0
    /\ subservices # {}
    /\ IF writer # "none"
       THEN UNCHANGED <<assignments, seq>>
       ELSE /\ saved.next <= MaxAssignments
            /\ assignments' = ApplyCompleted(saved.rows, date_iso, vols, comp)
            /\ seq' = [seq EXCEPT !.assignments = saved.next]
    /\ UNCHANGED <<volunteers, services, service_dates, subservices, clock,
                   writer, pending, pc>>
    /\ last' = [op |-> "save_assignments", date |-> date_iso, sel |-> sel,
                raised |-> "none"]

(***************************************************************************)
(* Specifications.  Each draws the arguments of the calls from sets small  *)
(* enough to enumerate; the operations are the same in all of them.        *)
(***************************************************************************)
OptionalDateLists == {PyList(l) : l \in DateLists} \cup {PyNone}

OptionalStartDates == StartDates \cup {PyNone}

OptionalEndDates == WindowDates \cup {PyNone}

\* The registry with several volunteers: mappings of one key at most.
RegistryDicts == {PyNone, PyDict(<< <<Str(1), <<Iso(2024, 6, 1)>> >> >>)}

RegistryLists == {PyNone, PyList(<<Iso(2024, 6, 8)>>)}

RegistryNext ==
    \/ \E name \in Names, email \in Emails, ad \in RegistryDicts,
          now \in {clock, clock + 1} :
            AddVolunteer(name, email, ad, FALSE, now)
    \/ \E email \in Emails, l \in RegistryLists :
            AssignService(email, 1, l, FALSE)
    \/ \E vid \in VolunteerIds, name \in Names, email \in Emails,
          ad \in RegistryDicts :
            UpdateVolunteer(vid, name, email, ad, FALSE)
    \/ \E vid \in VolunteerIds : DeleteVolunteer(vid)
    \/ GcCollect

SpecRegistry == Init /\ [][RegistryNext]_vars

\* The mapping column of one volunteer, with every kind of key.
MappingNext ==
    \/ \E ad \in OptionalDicts :
            AddVolunteer("Ann", "a@x", ad, FALSE, clock)
    \/ \E sid \in ServiceIds, l \in OptionalDateLists, cw \in BOOLEAN :
            AssignService("a@x", sid, l, cw)
    \/ \E vid \in VolunteerIds, ad \in OptionalDicts :
            UpdateVolunteer(vid, "Ann", "a@x", ad, FALSE)
    \/ \E vid \in VolunteerIds : DeleteVolunteer(vid)

SpecMapping == Init /\ [][MappingNext]_vars

\* The sub-service assignments.
AssignNext ==
    \/ \E bid \in SubserviceIds, d \in SampleDates, ids \in IdLists :
            AssignSubservice(bid, d, ids)
    \/ \E aid \in AssignmentIds, c \in BOOLEAN : MarkAssignmentCompleted(aid, c)

SpecAssign == InitFresh /\ [][AssignNext]_vars

\* The catalog: one service at a time, with its generated dates.
CatalogNext ==
    \/ \E s \in OptionalStartDates, e \in OptionalEndDates :
            CreateService("Kitchen", s, e)
    \/ \E sid \in ServiceIds : DeleteService(sid)
    \/ GcCollect

SpecCatalog == InitFresh /\ [][CatalogNext]_vars

\* The catalog under edits: services created with dates, renamed and given
\* other date ranges, and deleted.
UpdateDates == {PyNone, Iso(2024, 6, 8), Iso(2024, 6, 15)}

UpdateNext ==
    \/ \E name \in ServiceNames, e \in SampleDates :
            CreateService(name, Iso(2024, 6, 1), e)
    \/ \E sid \in ServiceIds, name \in ServiceNames, s, e \in UpdateDates :
            UpdateService(sid, name, s, e)
    \/ \E sid \in ServiceIds : DeleteService(sid)
    \/ GcCollect

SpecUpdate == InitFresh /\ [][UpdateNext]_vars

\* Two sessions saving sub-service assignments at the same time, statement by
\* statement.
ConcurrentAssignNext ==
    \/ \E s \in Sessions, bid \in SubserviceIds, d \in SampleDates,
          ids \in {<<>>, <<1>>, <<2, 1>>} :
            AssignSubserviceDelete(s, bid, d, ids)
    \/ \E s \in Sessions : AssignSubserviceInsert(s)
    \/ \E s \in Sessions : AssignSubserviceCommit(s)

SpecConcurrentAssign == InitFresh /\ [][ConcurrentAssignNext]_vars

\* Services created transaction by transaction, while another session saves
\* sub-service assignments statement by statement.
ConcurrentCreateNext ==
    \/ \E s \in Sessions, name \in ServiceNames, e \in SampleDates :
            CreateServiceRow(s, name, Iso(2024, 6, 1), e)
    \/ \E s \in Sessions : CreateServiceDates(s)
    \/ \E s \in Sessions, ids \in {<<>>, <<1>>} :
            AssignSubserviceDelete(s, 1, Iso(2024, 6, 1), ids)
    \/ \E s \in Sessions : AssignSubserviceInsert(s)
    \/ \E s \in Sessions : AssignSubserviceCommit(s)
    \/ GcCollect

SpecConcurrentCreate == InitFresh /\ [][ConcurrentCreateNext]_vars

\* Assignments of one key saved again after some were marked completed.
ReassignNext ==
    \/ \E s \in Sessions, ids \in {<<1>>, <<2, 1>>} :
            AssignSubserviceDelete(s, 1, Iso(2024, 6, 1), ids)
    \/ \E s \in Sessions : AssignSubserviceInsert(s)
    \/ \E s \in Sessions : AssignSubserviceCommit(s)
    \/ \E aid \in AssignmentIds, c \in BOOLEAN : MarkAssignmentCompleted(aid, c)

SpecReassign == InitFresh /\ [][ReassignNext]_vars

\* Two sessions changing the signup of one volunteer at the same time,
\* statement by statement.
ConcurrentReassignNext ==
    \/ AddVolunteer("Ann", "a@x", PyNone, FALSE, clock)
    \/ \E s \in Sessions, sid \in ServiceIds, l \in RegistryLists :
            AssignServiceSelect(s, "a@x", sid, l)
    \/ \E s \in Sessions : AssignServiceUpdate(s)

SpecConcurrentReassign == InitFresh /\ [][ConcurrentReassignNext]_vars

\* Deleting volunteers statement by statement, while other sessions register
\* volunteers and save sub-service assignments.
DeleteNext ==
    \/ \E email \in Emails : AddVolunteer("Ann", email, PyNone, FALSE, clock)
    \/ \E ids \in IdLists : AssignSubservice(1, Iso(2024, 6, 1), ids)
    \/ \E s \in Sessions, vid \in VolunteerIds : DeleteVolunteerCascade(s, vid)
    \/ \E s \in Sessions : DeleteVolunteerStatement(s)
    \/ \E s \in Sessions : DeleteVolunteerCommit(s)

SpecDelete == InitFresh /\ [][DeleteNext]_vars

\* The catalog with its descendants: services with dates, sub-services of
\* existing and of unknown services, and assignments to them.
CascadeNext ==
    \/ \E name \in ServiceNames, e \in SampleDates :
            CreateService(name, Iso(2024, 6, 1), e)
    \/ \E sid \in ServiceIds : CreateSubservice(sid, "Dishes")
    \/ \E bid \in SubserviceIds, ids \in {<<1>>, <<2, 1>>} :
            AssignSubservice(bid, Iso(2024, 6, 1), ids)
    \/ \E sid \in ServiceIds : DeleteService(sid)
    \/ GcCollect

SpecCascade == InitFresh /\ [][CascadeNext]_vars

\* Volunteers and their assignments to sub-services, completed or not.
EligibilityNext ==
    \/ \E email \in Emails : AddVolunteer("Ann", email, PyNone, FALSE, clock)
    \/ \E bid \in 1..FeeThreshold, d \in SampleDates, ids \in {<<1>>, <<2, 1>>} :
            AssignSubservice(bid, d, ids)
    \/ \E aid \in AssignmentIds, c \in BOOLEAN : MarkAssignmentCompleted(aid, c)

SpecEligibility == InitFresh /\ [][EligibilityNext]_vars

\* Volunteers signed up for dates, with assignments on those dates.
RosterNext ==
    \/ \E name \in Names, email \in Emails, ad \in RegistryDicts :
            AddVolunteer(name, email, ad, FALSE, clock)
    \/ \E bid \in SubserviceIds, d \in SampleDates, ids \in {<<1>>, <<2, 1>>} :
            AssignSubservice(bid, d, ids)
    \/ \E aid \in AssignmentIds : MarkAssignmentCompleted(aid, TRUE)

SpecRoster == Init /\ [][RosterNext]_vars

\* a month that no calendar has: fromisoformat raises ValueError
UnparsableDate == Iso(2024, 13, 1)

\* Calls that name rows that may not exist, next to calls that the store
\* rejects.
FailureNext ==
    \/ \E email \in Emails : AddVolunteer("Ann", email, PyNone, FALSE, clock)
    \/ \E vid \in VolunteerIds, email \in Emails :
            UpdateVolunteer(vid, "Ann", email, PyNone, FALSE)
    \/ \E email \in Emails \cup {"c@x"}, l \in RegistryLists :
            AssignService(email, 1, l, FALSE)
    \/ \E vid \in VolunteerIds : DeleteVolunteer(vid)
    \/ \E ids \in {<<1>>, <<2, 1>>} : AssignSubservice(1, Iso(2024, 6, 1), ids)
    \/ \E aid \in AssignmentIds, c \in BOOLEAN : MarkAssignmentCompleted(aid, c)
    \/ \E s, e \in {Iso(2024, 6, 1), UnparsableDate} : CreateService("Kitchen", s, e)
    \/ GcCollect

SpecFailures == InitFresh /\ [][FailureNext]_vars

\* Volunteers of two names, registered at different times, with mappings of
\* one and two services, next to a legacy row.
ListingNext ==
    \/ \E name \in Names, email \in Emails, ad \in RegistryDicts,
          now \in {clock, clock + 1} :
            AddVolunteer(name, email, ad, FALSE, now)
    \/ \E email \in Emails, sid \in ServiceIds, l \in RegistryLists :
            AssignService(email, sid, l, FALSE)
    \/ \E vid \in VolunteerIds : DeleteVolunteer(vid)

SpecListing == Init /\ [][ListingNext]_vars

\* A volunteer whose mapping column is not a serialized mapping, next to a
\* volunteer registered by the program.
CorruptNext ==
    \/ \E ad \in RegistryDicts, now \in {clock, clock + 1} :
            AddVolunteer("Bob", "b@x", ad, FALSE, now)
    \/ \E email \in Emails, sid \in ServiceIds, l \in RegistryLists :
            AssignService(email, sid, l, FALSE)
    \/ \E vid \in VolunteerIds : DeleteVolunteer(vid)

SpecCorrupt == InitCorrupt /\ [][CorruptNext]_vars

\* Volunteers signed up for services of the catalog while services are
\* created and deleted: every service id given to the registry is the id of
\* a service that exists at the call.
ExistingServiceIds == {s.id : s \in services}

ReferenceNext ==
    \/ \E name \in ServiceNames : CreateService(name, PyNone, PyNone)
    \/ \E sid \in ServiceIds : DeleteService(sid)
    \/ \E email \in Emails, sid \in ExistingServiceIds :
            AddVolunteer("Ann", email,
                         PyDict(<< <<Str(sid), <<Iso(2024, 6, 1)>> >> >>),
                         FALSE, clock)
    \/ \E email \in Emails, sid \in ExistingServiceIds, l \in RegistryLists :
            AssignService(email, sid, l, FALSE)
    \/ \E vid \in VolunteerIds, email \in Emails, sid \in ExistingServiceIds :
            UpdateVolunteer(vid, "Ann", email,
                            PyDict(<< <<Str(sid), <<Iso(2024, 6, 8)>> >> >>), FALSE)
    \/ GcCollect

SpecReferences == InitFresh /\ [][ReferenceNext]_vars

\* Every table written and deleted from, each id given to a call being the id
\* of a row that exists at the call.
ExistingSubserviceIds == {b.id : b \in subservices}

ExistingVolunteerIdLists ==
    {ids \in IdLists : \A i \in 1..Len(ids) : \E v \in volunteers : v.id = ids[i]}

IntegrityNext ==
    \/ \E email \in Emails : AddVolunteer("Ann", email, PyNone, FALSE, clock)
    \/ \E vid \in VolunteerIds : DeleteVolunteer(vid)
    \/ \E name \in ServiceNames : CreateService(name, Iso(2024, 6, 1), Iso(2024, 6, 1))
    \/ \E sid \in ServiceIds : DeleteService(sid)
    \/ \E sid \in ExistingServiceIds : CreateSubservice(sid, "Dishes")
    \/ \E bid \in SubserviceIds : DeleteSubservice(bid)
    \/ \E bid \in ExistingSubserviceIds, ids \in ExistingVolunteerIdLists :
            AssignSubservice(bid, Iso(2024, 6, 1), ids)
    \/ GcCollect

SpecIntegrity == InitFresh /\ [][IntegrityNext]_vars

\* The Volunteer Assign form saved again and again for one date, for
\* volunteers signed up for that date and sub-services of different services.
ListedIds(vols) == {vols[i].id : i \in 1..Len(vols)}

Selections == {PyNone} \cup {[n |-> b] : b \in ExistingSubserviceIds}

SaveNext ==
    \/ \E name \in Names, email \in Emails :
            AddVolunteer(name, email,
                         PyDict(<< <<Str(1), <<Iso(2024, 6, 1)>> >> >>), FALSE, clock)
    \/ CreateSubservice(seq.subservices + 1, "Dishes")
    \/ \E vols \in VolunteersByDate(Iso(2024, 6, 1)) :
          \E sel \in [ListedIds(vols) -> Selections],
             comp \in [ListedIds(vols) -> BOOLEAN] :
            SaveAssignments(Iso(2024, 6, 1), vols, sel, comp)

SpecSave == InitFresh /\ [][SaveNext]_vars

(***************************************************************************)
(* Properties of the assignment engine.                                    *)
(***************************************************************************)
\* the rows of the table for one (subservice, date) key
RowsFor(rows, subservice_id, date_iso) ==
    {a \in rows : a.subservice_id = subservice_id /\ a.date = date_iso}

\* how many times v occurs in the list ids
Occurrences(ids, v) == Cardinality({i \in 1..Len(ids) : ids[i] = v})

\* C1: after assign_subservice(s, d, ids) has returned, the rows of (s, d) are one row per
\* element of ids, a repeated id giving as many rows, and none of them is a
\* row that was in the table before the call.
C1_ReplaceExactly ==
    [][(last'.op = "assign_subservice" /\ last'.raised = "none") =>
         LET now == RowsFor(assignments', last'.subservice_id, last'.date)
             ids == last'.volunteer_ids
         IN  /\ Cardinality(now) = Len(ids)
             /\ \A v \in VolunteerIds :
                  Cardinality({a \in now : a.volunteer_id = v}) = Occurrences(ids, v)
             /\ now \cap assignments = {}
             /\ last'.ret = Len(ids)]_vars

\* C1 witness: a call with a repeated id has replaced the row of an earlier
\* call for the same key (row 1 is gone, rows 2 and 3 are the two new ones).
C1_Witness ==
    /\ last.op = "assign_subservice" /\ last.raised = "none"
    /\ last.volunteer_ids = <<1, 1>>
    /\ {a.id : a \in assignments} = {2, 3}
    /\ \A a \in assignments : a.volunteer_id = 1 /\ a.date = last.date
                              /\ a.subservice_id = last.subservice_id

\* C2: a call assign_subservice(s, d, ids) that returns leaves the rows of every other
\* (subservice, date) key as they were: same rows, same volunteer, same
\* completed flag.
C2_OtherKeysUnchanged ==
    [][(last'.op = "assign_subservice" /\ last'.raised = "none") =>
         assignments' \ RowsFor(assignments', last'.subservice_id, last'.date)
           = assignments \ RowsFor(assignments, last'.subservice_id, last'.date)]_vars

\* C2 witness: after a call, one volunteer holds rows of two sub-services on one
\* date, the older one completed.
C2_Witness ==
    /\ last.op = "assign_subservice" /\ last.raised = "none"
    /\ \E a, b \in assignments :
         /\ a.volunteer_id = b.volunteer_id /\ a.date = b.date
         /\ a.subservice_id # b.subservice_id
         /\ a.completed /\ b.subservice_id = last.subservice_id

(***************************************************************************)
(* Properties of the volunteer registry.                                   *)
(***************************************************************************)
\* C3: add_volunteer with an email that a volunteer row already has raises
\* the integrity error and leaves the volunteers table as it was.
C3_DuplicateEmailRejected ==
    [][(last'.op = "add_volunteer" /\ \E r \in volunteers : r.email = last'.email) =>
         /\ last'.raised = "IntegrityError"
         /\ volunteers' = volunteers
         /\ Cardinality(volunteers') = Cardinality(volunteers)]_vars

\* C4: no two volunteer rows have the same email, and an update that asked for
\* another volunteer's email has not changed the row it named.
C4_EmailsUnique ==
    /\ \A a, b \in volunteers : a.email = b.email => a = b
    /\ (last.op = "update_volunteer" /\ last.raised = "IntegrityError") =>
         /\ \E r \in volunteers : r.id = last.volunteer_id /\ r.email # last.email
         /\ \E o \in volunteers : o.id # last.volunteer_id /\ o.email = last.email

\* C4 witness: an update to the other volunteer's email has just been refused.
C4_Witness ==
    /\ last.op = "update_volunteer"
    /\ last.raised = "IntegrityError"
    /\ Cardinality(volunteers) = 2

AllStrKeys(d) == \A k \in DictKeys(d) : k.t = "str"

\* the mapping a column holds: the decoded object, or no key for NULL
StoredMapping(column) == IF column = SqlNull THEN PyDict(<<>>) ELSE JsonLoads(column)

\* C5: after add_volunteer with a non-empty mapping m whose keys are strings,
\* get_volunteer_by_email of that email returns assigned_dates equal to m:
\* the same keys, each with the same dates in the same order.
C5_RegisterRoundTrip ==
    (/\ last.op = "add_volunteer" /\ last.raised = "none"
     /\ Truthy(last.arg) /\ AllStrKeys(last.arg)) =>
        LET v == GetVolunteerByEmail(last.email) IN
        /\ v # PyNone
        /\ v.id = last.ret.id
        /\ DictEq(v.assigned_dates, last.arg)

\* C5 witness: a mapping with two dates, the later date first, has been
\* registered and is read back.
C5_Witness ==
    /\ last.op = "add_volunteer" /\ last.raised = "none"
    /\ last.arg = PyDict(<< <<Str(1), <<Iso(2024, 6, 8), Iso(2024, 6, 1)>> >> >>)
    /\ GetVolunteerByEmail(last.email).assigned_dates = last.arg

\* the assigned_dates that list_volunteers, get_volunteer_by_email and
\* report_volunteers (no service filter) return for row r are all equal to m
ReadBackAs(r, m) ==
    /\ DictEq(GetVolunteerByEmail(r.email).assigned_dates, m)
    /\ \A res \in ListVolunteers : \A i \in 1..Len(res) :
         res[i].id = r.id => DictEq(res[i].assigned_dates, m)
    /\ \A res \in ReportVolunteers(PyNone, PyNone, PyNone) :
         \E i \in 1..Len(res) : res[i].id = r.id /\ DictEq(res[i].assigned_dates, m)
    /\ \A res \in ListVolunteers : \E i \in 1..Len(res) : res[i].id = r.id

\* C6: a row with a scalar assigned_date and a NULL or empty mapping is read
\* back with {None: [assigned_date]}; a row with a non-empty mapping is read
\* back with that mapping, whatever its scalar.
C6_LegacyFallback ==
    \A r \in volunteers :
        /\ (r.assigned_date # SqlNull /\ Len(StoredMapping(r.assigned_dates).items) = 0)
              => ReadBackAs(r, PyDict(<< <<PyNoneKey, <<r.assigned_date>> >> >>))
        /\ Len(StoredMapping(r.assigned_dates).items) > 0
              => ReadBackAs(r, StoredMapping(r.assigned_dates))

\* C6 witness: a legacy row whose mapping a reassign has just emptied is read
\* back through its scalar.
C6_Witness ==
    /\ last.op = "assign_service" /\ last.raised = "none" /\ last.ret
    /\ \E r \in volunteers :
         /\ r.email = last.email
         /\ r.assigned_date = Iso(2024, 6, 1)
         /\ r.assigned_dates = SqlNull
         /\ GetVolunteerByEmail(r.email).assigned_dates
              = PyDict(<< <<PyNoneKey, <<Iso(2024, 6, 1)>> >> >>)

\* C6 second witness: a legacy row that carries a non-empty mapping as well.
C6_WitnessMapping ==
    \E r \in volunteers :
        /\ r.assigned_date # SqlNull
        /\ Len(StoredMapping(r.assigned_dates).items) > 0
        /\ GetVolunteerByEmail(r.email).assigned_dates = StoredMapping(r.assigned_dates)

\* C7: assign_service on an existing volunteer, when it returns, has stored the previous mapping with
\* key str(service_id) set to the dates when the list is non-empty and removed
\* when it is empty or None; every other key keeps its list; a mapping left
\* without keys is stored as NULL.
C7_ReassignSetsKey ==
    [][(/\ last'.op = "assign_service" /\ last'.raised = "none"
        /\ \E r \in volunteers : r.email = last'.email) =>
         \A r \in volunteers : r.email = last'.email =>
           \E n \in volunteers' :
             LET prev == StoredMapping(r.assigned_dates)
                 new == StoredMapping(n.assigned_dates)
                 k == Str(last'.service_id)
             IN  /\ n.id = r.id
                 /\ last'.ret
                 /\ IF Truthy(last'.arg)
                    THEN DictHas(new, k) /\ DictGet(new, k) = last'.arg.items
                    ELSE ~DictHas(new, k)
                 /\ DictKeys(new) \ {k} = DictKeys(prev) \ {k}
                 /\ \A j \in DictKeys(prev) \ {k} : DictGet(new, j) = DictGet(prev, j)
                 /\ (DictKeys(new) = {}) <=> (n.assigned_dates = SqlNull)]_vars

\* C7 witness: a reassign of service 2 has left the list of key "1" in place.
C7_Witness ==
    /\ last.op = "assign_service" /\ last.raised = "none" /\ last.ret
    /\ last.service_id = 2
    /\ \E r \in volunteers :
         /\ r.email = last.email
         /\ DictKeys(StoredMapping(r.assigned_dates)) = {Str(1), Str(2)}

\* C7 second witness: a reassign with an empty list has removed the only key.
C7_WitnessCleared ==
    /\ last.op = "assign_service" /\ last.raised = "none" /\ last.ret
    /\ last.arg = PyList(<<>>)
    /\ \E r \in volunteers : r.email = last.email /\ r.assigned_dates = SqlNull
                             /\ r.assigned_date = SqlNull

\* the service ids whose report filter str(service_id) is the JSON name of key k
ServicesOfKey(k) == {sid \in ServiceIds : ToString(sid) = JsonKey(k)}

\* rows r and r0 are read alike by get_volunteer_by_email, by volunteers_by_date
\* and by report_volunteers filtered on the services of key k
SameReads(r, r0, k) ==
    /\ GetVolunteerDecode(r) = GetVolunteerDecode(r0)
    /\ \A d \in SampleDates : FoundForDate(r, d) = FoundForDate(r0, d)
    /\ \A sid \in ServicesOfKey(k) :
         /\ ReportKeeps(r, [n |-> sid]) = ReportKeeps(r0, [n |-> sid])
         /\ ReportKeeps(r, [n |-> sid]) =>
              ReportDates(r, [n |-> sid]) = ReportDates(r0, [n |-> sid])

\* the keys of mapping d that carry an empty date list
EmptyKeys(d) == {k \in DictKeys(d) : DictGet(d, k) = <<>>}

\* the row the last call wrote
LastRow ==
    CHOOSE r \in volunteers :
        IF last.op = "update_volunteer" THEN r.id = last.volunteer_id
        ELSE r.email = last.email

LastWrote ==
    /\ last.op \in {"add_volunteer", "update_volunteer", "assign_service"}
    /\ last.raised = "none"
    /\ IF last.op = "add_volunteer" THEN TRUE ELSE last.ret

\* C8 as claimed: on every write path, a mapping written with an empty list
\* under key k is read back as the same mapping written without k.
C8_EmptyListIsAbsent ==
    LastWrote =>
      IF last.op = "assign_service"
      THEN ~Truthy(last.arg) =>
             SameReads(LastRow,
                       [LastRow EXCEPT !.assigned_dates =
                          LET m == DictPop(StoredMapping(LastRow.assigned_dates),
                                           Str(last.service_id))
                          IN  IF Truthy(m) THEN JsonDumps(m) ELSE SqlNull],
                       Str(last.service_id))
      ELSE (Truthy(last.arg) /\ AllStrKeys(last.arg)) =>
             \A k \in EmptyKeys(last.arg) :
               SameReads(LastRow,
                         [LastRow EXCEPT !.assigned_dates =
                            IF last.op = "add_volunteer"
                            THEN AddVolunteerJson(DictPop(last.arg, k))
                            ELSE UpdateVolunteerJson(DictPop(last.arg, k))],
                         k)

\* C8 as amended: assign_service with an empty or None list leaves the row read
\* as with the key absent; add_volunteer and update_volunteer store a string
\* key with an empty list as given, so get_volunteer_by_email returns the key
\* with an empty list and report_volunteers filtered on it keeps the volunteer
\* with that empty list; volunteers_by_date reads the row as without the key.
C8_EmptyListKeptByRegisterAndUpdate ==
    LastWrote =>
      IF last.op = "assign_service"
      THEN ~Truthy(last.arg) =>
             /\ ~DictHas(StoredMapping(LastRow.assigned_dates), Str(last.service_id))
             /\ LET got == GetVolunteerByEmail(last.email).assigned_dates IN
                  got = PyNone \/ ~DictHas(got, Str(last.service_id))
             /\ \A res \in ReportVolunteers([n |-> last.service_id], PyNone, PyNone) :
                  \A i \in 1..Len(res) : res[i].id # LastRow.id
      ELSE (Truthy(last.arg) /\ AllStrKeys(last.arg)) =>
             \A k \in EmptyKeys(last.arg) :
               /\ LET got == GetVolunteerByEmail(LastRow.email).assigned_dates IN
                    DictHas(got, k) /\ DictGet(got, k) = <<>>
               /\ \A sid \in ServicesOfKey(k) :
                    \A res \in ReportVolunteers([n |-> sid], PyNone, PyNone) :
                      \E i \in 1..Len(res) :
                        /\ res[i].id = LastRow.id
                        /\ res[i].assigned_dates = PyDict(<< <<k, <<>> >> >>)
               /\ \A d \in SampleDates :
                    FoundForDate(LastRow, d) =
                      FoundForDate([LastRow EXCEPT !.assigned_dates =
                                      IF last.op = "add_volunteer"
                                      THEN AddVolunteerJson(DictPop(last.arg, k))
                                      ELSE UpdateVolunteerJson(DictPop(last.arg, k))], d)

\* C8 witness: a register with {"1": []} is reported under service 1.
C8_Witness ==
    /\ last.op = "add_volunteer" /\ last.raised = "none"
    /\ last.arg = PyDict(<< <<Str(1), <<>> >> >>)
    /\ \E res \in ReportVolunteers([n |-> 1], PyNone, PyNone) : Len(res) = 1

\* C8 second witness: a reassign with an empty list has removed a key.
C8_WitnessReassign ==
    /\ last.op = "assign_service" /\ last.raised = "none" /\ last.ret
    /\ ~Truthy(last.arg)
    /\ LastRow.assigned_dates # SqlNull

(***************************************************************************)
(* Properties of the catalog.                                              *)
(***************************************************************************)
\* the service_dates rows of service sid
DateRowsOf(sid) == {sd \in service_dates : sd.service_id = sid}

\* the days of [s, e] that are Saturdays
SaturdaysIn(s, e) == {n \in s..e : Weekday(n) = 5}

\* C9: after create_service with parsable start and end dates has returned,
\* the dates of the new service are exactly the Saturdays of [start, end], one
\* row each: the first is the earliest Saturday on or after start, consecutive
\* ones are 7 days apart, the last is less than 7 days before end, and there is
\* none when start is after end or the range holds no Saturday.
C9_SaturdaysInRange ==
    (/\ last.op = "create_service" /\ last.raised = "none"
     /\ last.start_date # PyNone /\ last.end_date # PyNone
     /\ IsoParsable(last.start_date) /\ IsoParsable(last.end_date)) =>
        LET s == FromIso(last.start_date)
            e == FromIso(last.end_date)
            rows == DateRowsOf(last.ret)
            got == {FromIso(sd.date) : sd \in rows}
        IN  /\ got = SaturdaysIn(s, e)
            /\ Cardinality(rows) = Cardinality(got)
            /\ \A sd \in rows : IsoParsable(sd.date) /\ Weekday(FromIso(sd.date)) = 5
            /\ got # {} =>
                 /\ \E first \in got :
                      /\ \A n \in got : first <= n
                      /\ first >= s /\ first - s < 7
                      /\ \A n \in s..(first - 1) : Weekday(n) # 5
                 /\ \A n \in got : (n + 7 <= e) <=> (n + 7 \in got)
                 /\ \E final \in got : (\A n \in got : n <= final)
                                       /\ final <= e /\ e - final < 7
            /\ (s > e \/ SaturdaysIn(s, e) = {}) => rows = {}

\* C9 witness: create_service from Saturday 2024-06-01 to Saturday 2024-06-29
\* has generated the five Saturdays of June 2024.
C9_Witness ==
    /\ last.op = "create_service" /\ last.raised = "none"
    /\ last.start_date = Iso(2024, 6, 1) /\ last.end_date = Iso(2024, 6, 29)
    /\ {sd.date : sd \in DateRowsOf(last.ret)} =
         {Iso(2024, 6, 1), Iso(2024, 6, 8), Iso(2024, 6, 15), Iso(2024, 6, 22),
          Iso(2024, 6, 29)}

\* C9 second witness: a start in mid-week and an end before the next Saturday
\* has generated nothing.
C9_WitnessNone ==
    /\ last.op = "create_service" /\ last.raised = "none"
    /\ last.start_date = Iso(2024, 6, 3) /\ last.end_date = Iso(2024, 6, 7)
    /\ DateRowsOf(last.ret) = {}
    /\ \E s \in services : s.id = last.ret

(***************************************************************************)
(* Properties of delete_volunteer.                                         *)
(***************************************************************************)
HasVolunteer(rows, volunteer_id) == \E r \in rows : r.id = volunteer_id

HasAssignmentOf(rows, volunteer_id) == \E a \in rows : a.volunteer_id = volunteer_id

\* C10: when delete_volunteer of an existing volunteer has returned, the
\* volunteer row is gone and no assignment row names the volunteer; and in
\* every step of the committed tables in which a volunteer row disappears, the
\* assignment rows of that volunteer are gone in the same step, so no state
\* that another connection can read has the one without the other.
C10_DeleteCascadesTogether ==
    [][/\ \A vid \in VolunteerIds :
            (HasVolunteer(volunteers, vid) /\ ~HasVolunteer(volunteers', vid)) =>
                ~HasAssignmentOf(assignments', vid)
       /\ \A s \in Sessions :
            (pc[s].at = "deleted" /\ pc'[s] = Idle
             /\ HasVolunteer(volunteers, pc[s].volunteer_id)) =>
                /\ last'.op = "delete_volunteer" /\ last'.raised = "none"
                /\ last'.volunteer_id = pc[s].volunteer_id
                /\ last'.ret
                /\ ~HasVolunteer(volunteers', pc[s].volunteer_id)
                /\ ~HasAssignmentOf(assignments', pc[s].volunteer_id)]_vars

\* C10 witness: volunteers 2 and 1 were assigned in one call (rows 1 and 2);
\* delete_volunteer(1) has returned true, and volunteer 1's row 2 went with
\* the volunteer while volunteer 2's row 1 stayed.
C10_Witness ==
    /\ last.op = "delete_volunteer" /\ last.raised = "none"
    /\ last.volunteer_id = 1 /\ last.ret
    /\ ~HasVolunteer(volunteers, 1) /\ HasVolunteer(volunteers, 2)
    /\ seq.assignments = 2
    /\ {[id |-> a.id, volunteer_id |-> a.volunteer_id] : a \in assignments} =
         {[id |-> 1, volunteer_id |-> 2]}

\* C10 second witness: while one session is between the two DELETEs of
\* delete_volunteer, the write of another connection has been refused and the
\* committed tables still hold the volunteer and the assignment.
C10_WitnessMidway ==
    /\ \E s \in Sessions : pc[s].at = "cascaded" /\ pc[s].volunteer_id = 1
    /\ last.raised = "OperationalError"
    /\ HasVolunteer(volunteers, 1) /\ HasAssignmentOf(assignments, 1)
    /\ ~HasAssignmentOf(pending.assignments, 1)

(***************************************************************************)
(* Properties of delete_service.                                           *)
(***************************************************************************)
\* C11: when delete_service(sid) has returned, no service_dates row and no
\* subservices row has service_id = sid and no assignment row names a
\* sub-service that belonged to sid; the service row is gone; every other row
\* of the four tables, and every volunteer, is as it was.
C11_DeleteServiceCascade ==
    [][(last'.op = "delete_service" /\ last'.raised = "none") =>
         LET sid == last'.service_id
             owned == {b.id : b \in {x \in subservices : x.service_id = sid}}
         IN  /\ \A sd \in service_dates' : sd.service_id # sid
             /\ \A b \in subservices' : b.service_id # sid
             /\ \A a \in assignments' : a.subservice_id \notin owned
             /\ \A s \in services' : s.id # sid
             /\ service_dates' = {sd \in service_dates : sd.service_id # sid}
             /\ subservices' = {b \in subservices : b.service_id # sid}
             /\ assignments' = {a \in assignments : a.subservice_id \notin owned}
             /\ services' = {s \in services : s.id # sid}
             /\ volunteers' = volunteers
             /\ last'.ret = (\E s \in services : s.id = sid)]_vars

\* C11 witness: service 1 has been deleted with its dates, its sub-service and
\* that sub-service's assignments, while service 2 keeps a date, a sub-service
\* and an assignment.
C11_Witness ==
    /\ last.op = "delete_service" /\ last.raised = "none"
    /\ last.service_id = 1 /\ last.ret
    /\ seq.subservices = 2 /\ seq.assignments = 3
    /\ \E b \in subservices : b.service_id = 2 /\ \E a \in assignments : a.subservice_id = b.id
    /\ \E sd \in service_dates : sd.service_id = 2
    /\ Cardinality(assignments) < 3
    /\ \A b \in subservices : b.service_id = 2

(***************************************************************************)
(* Properties of the admin reports.                                        *)
(***************************************************************************)
\* the sub-service ids among the assignment rows of volunteer vid
SubservicesHeldBy(vid) ==
    {a.subservice_id : a \in {x \in assignments : x.volunteer_id = vid}}

\* C12: the eligibility report has one row per volunteer, and the row is
\* marked eligible exactly when the volunteer's assignment rows, of every date
\* and completed or not, name at least 3 distinct sub-services.
C12_EligibleIffThreeSubservices ==
    \A report \in EligibilityReport :
        /\ Len(report) = Cardinality(volunteers)
        /\ \A v \in volunteers : \E i \in 1..Len(report) : report[i].id = v.id
        /\ \A i \in 1..Len(report) :
             /\ (report[i].eligibility # "") <=>
                   Cardinality(SubservicesHeldBy(report[i].id)) >= 3
             /\ report[i].no_of_subservices = Cardinality(SubservicesHeldBy(report[i].id))

\* C12 witness: volunteer 1 has three assignment rows, none completed, to three
\* distinct sub-services and is eligible.
C12_Witness ==
    /\ Cardinality(SubservicesHeldBy(1)) = 3
    /\ \A a \in assignments : ~a.completed
    /\ \E report \in EligibilityReport : \E i \in 1..Len(report) :
         report[i].id = 1 /\ report[i].eligibility = "Eligible for Vol. Fees return"

\* C12 second witness: volunteer 1 has three assignment rows, all completed,
\* two of them to one sub-service on two dates, and is not eligible.
C12_WitnessRepeated ==
    /\ Cardinality({a \in assignments : a.volunteer_id = 1 /\ a.completed}) = 3
    /\ Cardinality(SubservicesHeldBy(1)) = 2
    /\ \E report \in EligibilityReport : \E i \in 1..Len(report) :
         report[i].id = 1 /\ report[i].eligibility = ""

\* C13: the roster of a date has exactly one row per volunteer that
\* volunteers_by_date returns for the date, in that order, so it is empty when
\* none matches; the completed count of a row is the number of that
\* volunteer's assignment rows on that date whose completed flag is set.
C13_RosterPerVolunteer ==
    \A d \in SampleDates :
        /\ \A roster \in RosterForDate(d) :
             \E vols \in VolunteersByDate(d) :
                /\ Len(roster) = Len(vols)
                /\ \A i \in 1..Len(vols) :
                     /\ roster[i].email = vols[i].email
                     /\ roster[i].no_of_completed_services =
                          Cardinality({a \in assignments :
                                         /\ a.volunteer_id = vols[i].id
                                         /\ a.date = d /\ a.completed})
        /\ (\A r \in volunteers : ~FoundForDate(r, d)) => RosterForDate(d) = {<<>>}

\* C13 witness: a volunteer signed up for 2024-06-01 has there one completed
\* and one open assignment, and a completed one on another date; the roster of
\* 2024-06-01 counts 1.
C13_Witness ==
    \E v \in volunteers :
        /\ FoundForDate(v, Iso(2024, 6, 1))
        /\ \E a, b, c \in assignments :
             /\ a.volunteer_id = v.id /\ b.volunteer_id = v.id /\ c.volunteer_id = v.id
             /\ a.date = Iso(2024, 6, 1) /\ a.completed
             /\ b.date = Iso(2024, 6, 1) /\ ~b.completed
             /\ c.date = Iso(2024, 6, 8) /\ c.completed
        /\ \A roster \in RosterForDate(Iso(2024, 6, 1)) :
             \E i \in 1..Len(roster) :
                roster[i].email = v.email /\ roster[i].no_of_completed_services = 1

\* C13 second witness: volunteers exist and there is a completed assignment on
\* 2024-06-08, but nobody is signed up for that date: the roster is empty.
C13_WitnessEmpty ==
    /\ volunteers # {}
    /\ \E a \in assignments : a.date = Iso(2024, 6, 8) /\ a.completed
    /\ RosterForDate(Iso(2024, 6, 8)) = {<<>>}

(***************************************************************************)
(* Properties of calls that name a row that does not exist.                *)
(***************************************************************************)
\* C14: assign_service for an email that no volunteer row has returns false,
\* raises nothing and leaves the volunteers table as it was.
C14_ReassignUnknownEmail ==
    [][(last'.op = "assign_service" /\ ~\E r \in volunteers : r.email = last'.email) =>
         /\ last'.raised = "none"
         /\ last'.ret = FALSE
         /\ volunteers' = volunteers]_vars

\* C15: delete_volunteer for an id that has no volunteer row returns false and
\* leaves all five tables as they were.
C15_DeleteUnknownChangesNothing ==
    [][(/\ last'.op = "delete_volunteer"
        /\ ~\E r \in volunteers : r.id = last'.volunteer_id) =>
         /\ last'.raised = "none"
         /\ last'.ret = FALSE
         /\ volunteers' = volunteers
         /\ services' = services
         /\ service_dates' = service_dates
         /\ subservices' = subservices
         /\ assignments' = assignments]_vars

\* C15, the assignment rows apart: a returned delete_volunteer for an id
\* without a volunteer row returns false, leaves the other four tables as they
\* were, and removes exactly the assignment rows that name the id.
C15_DeleteUnknownRemovesOrphans ==
    [][(/\ last'.op = "delete_volunteer" /\ last'.raised = "none"
        /\ ~\E r \in volunteers : r.id = last'.volunteer_id) =>
         /\ last'.ret = FALSE
         /\ volunteers' = volunteers
         /\ services' = services
         /\ service_dates' = service_dates
         /\ subservices' = subservices
         /\ assignments' = {a \in assignments : a.volunteer_id # last'.volunteer_id}]_vars

(***************************************************************************)
(* Properties of the volunteer listings.                                   *)
(***************************************************************************)
\* date d occurs in a date list of the row's stored mapping, or is the row's
\* scalar assigned_date
SignedUpFor(r, d) ==
    \/ \E k \in DictKeys(StoredMapping(r.assigned_dates)) :
          d \in Range(DictGet(StoredMapping(r.assigned_dates), k))
    \/ r.assigned_date = d

\* C16: volunteers_by_date(d) returns exactly the volunteers whose stored
\* mapping has d in some date list or whose scalar assigned_date is d, each
\* once, names ascending.
C16_ListForDate ==
    \A d \in SampleDates :
        /\ VolunteersByDate(d) # {}
        /\ \A res \in VolunteersByDate(d) :
             /\ {res[i].id : i \in 1..Len(res)} =
                  {r.id : r \in {x \in volunteers : SignedUpFor(x, d)}}
             /\ \A i, j \in 1..Len(res) : res[i].id = res[j].id => i = j
             /\ \A i, j \in 1..Len(res) :
                  i < j => ~(res[i].name = "Bob" /\ res[j].name = "Ann")

\* C16 witness: Bob, registered for 2024-06-01, and the legacy row of Ann,
\* whose scalar is 2024-06-01 and whose mapping holds another date only, are
\* both listed for 2024-06-01, Ann first.
C16_Witness ==
    /\ \E r \in volunteers :
         /\ r.name = "Ann" /\ r.assigned_date = Iso(2024, 6, 1)
         /\ DictKeys(StoredMapping(r.assigned_dates)) # {}
         /\ \A k \in DictKeys(StoredMapping(r.assigned_dates)) :
              Iso(2024, 6, 1) \notin Range(DictGet(StoredMapping(r.assigned_dates), k))
    /\ \E res \in VolunteersByDate(Iso(2024, 6, 1)) :
         Len(res) = 2 /\ res[1].name = "Ann" /\ res[2].name = "Bob"

\* C16 second witness: a volunteer who has 2024-06-08 under two service keys
\* is listed once.
C16_WitnessOnce ==
    \E r \in volunteers :
        /\ DictKeys(StoredMapping(r.assigned_dates)) = {Str(1), Str(2)}
        /\ \A k \in {Str(1), Str(2)} :
             Iso(2024, 6, 8) \in Range(DictGet(StoredMapping(r.assigned_dates), k))
        /\ \A res \in VolunteersByDate(Iso(2024, 6, 8)) :
             Cardinality({i \in 1..Len(res) : res[i].id = r.id}) = 1

\* optional bounds on created_at
Timestamps == {PyNone} \cup {[n |-> t] : t \in 0..MaxVolunteers}

\* the row was created within [s, e], each bound optional
CreatedWithin(r, s, e) ==
    /\ s = PyNone \/ r.created_at >= s.n
    /\ e = PyNone \/ r.created_at <= e.n

\* mapping m is the decoded mapping of row r: the stored mapping when it has a
\* key, else the legacy {None: [assigned_date]}, else nothing
IsDecodedMappingOf(m, r) ==
    IF Len(StoredMapping(r.assigned_dates).items) > 0
    THEN DictEq(m, StoredMapping(r.assigned_dates))
    ELSE IF r.assigned_date # SqlNull
         THEN m = PyDict(<< <<PyNoneKey, <<r.assigned_date>> >> >>)
         ELSE ~Truthy(m)

\* row r has key str(k) in its decoded mapping, which cannot be the legacy one
HasServiceKey(r, k) == DictHas(StoredMapping(r.assigned_dates), Str(k))

\* C17: report_volunteers(service_id = k) returns exactly the volunteers
\* created within the range whose decoded mapping has key str(k), each with
\* the mapping {str(k): the volunteer's dates for k}; without service_id it
\* returns every volunteer created within the range with the full decoded
\* mapping.
C17_ReportFilter ==
    \A s, e \in Timestamps :
        /\ \A k \in ServiceIds :
             /\ ReportVolunteers([n |-> k], s, e) # {}
             /\ \A res \in ReportVolunteers([n |-> k], s, e) :
                  /\ {res[i].id : i \in 1..Len(res)} =
                       {r.id : r \in {x \in volunteers :
                                        CreatedWithin(x, s, e) /\ HasServiceKey(x, k)}}
                  /\ \A i, j \in 1..Len(res) : res[i].id = res[j].id => i = j
                  /\ \A i \in 1..Len(res) : \A r \in volunteers :
                       r.id = res[i].id =>
                         res[i].assigned_dates =
                           PyDict(<< <<Str(k),
                                       DictGet(StoredMapping(r.assigned_dates), Str(k))>> >>)
        /\ ReportVolunteers(PyNone, s, e) # {}
        /\ \A res \in ReportVolunteers(PyNone, s, e) :
             /\ {res[i].id : i \in 1..Len(res)} =
                  {r.id : r \in {x \in volunteers : CreatedWithin(x, s, e)}}
             /\ \A i, j \in 1..Len(res) : res[i].id = res[j].id => i = j
             /\ \A i \in 1..Len(res) : \A r \in volunteers :
                  r.id = res[i].id => IsDecodedMappingOf(res[i].assigned_dates, r)

\* C17 witness: of two volunteers created at different times, one has keys
\* "1" and "2" and is reported for service 2 with key "2" alone, the other,
\* a legacy row without key "2", is not; a range ending before the first one
\* was created reports nobody for service 2.
C17_Witness ==
    \E a, b \in volunteers :
        /\ DictKeys(StoredMapping(a.assigned_dates)) = {Str(1), Str(2)}
        /\ b.assigned_date # SqlNull /\ ~HasServiceKey(b, 2)
        /\ a.created_at > b.created_at
        /\ \A res \in ReportVolunteers([n |-> 2], PyNone, PyNone) :
             /\ Len(res) = 1 /\ res[1].id = a.id
             /\ DictKeys(res[1].assigned_dates) = {Str(2)}
        /\ ReportVolunteers([n |-> 2], PyNone, [n |-> b.created_at]) = {<<>>}
        /\ \A res \in ReportVolunteers(PyNone, PyNone, [n |-> b.created_at]) :
             Len(res) = 1 /\ res[1].id = b.id

(***************************************************************************)
(* Properties of mark_assignment_completed.                                *)
(***************************************************************************)
\* the assignments table with the completed flag of row aid set to c
WithCompleted(rows, aid, c) ==
    {IF a.id = aid THEN [a EXCEPT !.completed = c] ELSE a : a \in rows}

\* C18: mark_assignment_completed(aid, c) on an existing row returns true,
\* sets that row's completed flag to c and changes no other row or field; on
\* an id without a row it returns false and changes nothing; a second call
\* with the same c would leave the state of the first.
C18_MarkCompleted ==
    [][last'.op = "mark_assignment_completed" =>
         /\ last'.raised = "none"
         /\ last'.ret = (\E a \in assignments : a.id = last'.assignment_id)
         /\ assignments' = WithCompleted(assignments, last'.assignment_id, last'.completed)
         /\ {a.id : a \in assignments'} = {a.id : a \in assignments}
         /\ (~\E a \in assignments : a.id = last'.assignment_id) =>
               assignments' = assignments
         /\ WithCompleted(assignments', last'.assignment_id, last'.completed) = assignments'
         /\ volunteers' = volunteers /\ services' = services
         /\ service_dates' = service_dates /\ subservices' = subservices]_vars

\* C18 for the calls that return: the same, whenever
\* mark_assignment_completed does not raise.
C18_MarkCompletedWhenReturned ==
    [][(last'.op = "mark_assignment_completed" /\ last'.raised = "none") =>
         /\ last'.ret = (\E a \in assignments : a.id = last'.assignment_id)
         /\ assignments' = WithCompleted(assignments, last'.assignment_id, last'.completed)
         /\ (~\E a \in assignments : a.id = last'.assignment_id) =>
               assignments' = assignments
         /\ WithCompleted(assignments', last'.assignment_id, last'.completed) = assignments'
         /\ volunteers' = volunteers /\ services' = services
         /\ service_dates' = service_dates /\ subservices' = subservices]_vars

(***************************************************************************)
(* Properties of the catalog: dates that cannot be parsed, and updates.    *)
(***************************************************************************)
\* C19: create_service under a new name, with a start or end date that cannot
\* be parsed, raises nothing, returns the id of the service row it created,
\* and creates no service_dates row for it.
C19_UnparsableDatesSwallowed ==
    [][(/\ last'.op = "create_service"
        /\ last'.dates = "unparsable"
        /\ ~\E s \in services : s.name = last'.name) =>
         /\ last'.raised = "none"
         /\ \E s \in services' \ services :
              /\ s.id = last'.ret /\ s.name = last'.name
              /\ services' = services \cup {s}
         /\ service_dates' = service_dates
         /\ \A sd \in service_dates' : sd.service_id # last'.ret]_vars

\* C19 for the calls that return: the same, whenever create_service does not
\* raise.
C19_UnparsableDatesWhenReturned ==
    [][(/\ last'.op = "create_service" /\ last'.raised = "none"
        /\ last'.dates = "unparsable") =>
         /\ \E s \in services' \ services :
              /\ s.id = last'.ret /\ s.name = last'.name
              /\ services' = services \cup {s}
         /\ service_dates' = service_dates
         /\ \A sd \in service_dates' : sd.service_id # last'.ret]_vars

DateRowsIn(rows, service_id) == {sd \in rows : sd.service_id = service_id}

\* C20: update_service leaves every service_dates row as it is, whatever start
\* and end date it stores; and the service_dates rows of a service stay the
\* same rows from one state to the next for as long as the service exists.
C20_UpdateKeepsDates ==
    [][/\ last'.op = "update_service" => service_dates' = service_dates
       /\ \A s \in services :
            (\E t \in services' : t.id = s.id) =>
               DateRowsIn(service_dates', s.id) = DateRowsIn(service_dates, s.id)]_vars

\* C20 witness: update_service has returned true for a service that now
\* stores the range 2024-06-08 .. 2024-06-15 and still has exactly the dates
\* generated for 2024-06-01 .. 2024-06-08.
C20_Witness ==
    /\ last.op = "update_service" /\ last.raised = "none" /\ last.ret = TRUE
    /\ \E s \in services :
         /\ s.id = last.service_id
         /\ s.start_date = Iso(2024, 6, 8) /\ s.end_date = Iso(2024, 6, 15)
         /\ {sd.date : sd \in DateRowsIn(service_dates, s.id)} =
              {Iso(2024, 6, 1), Iso(2024, 6, 8)}

(***************************************************************************)
(* Properties of concurrent calls.                                         *)
(***************************************************************************)
KeyRows(rows, subservice_id, date_iso) ==
    {a \in rows : a.subservice_id = subservice_id /\ a.date = date_iso}

\* rows are what one call with volunteer_ids inserts: one row per element,
\* none completed
RowsOfCall(rows, volunteer_ids) ==
    /\ Cardinality(rows) = Len(volunteer_ids)
    /\ \A v \in VolunteerIds :
         Cardinality({a \in rows : a.volunteer_id = v}) =
         Cardinality({i \in 1..Len(volunteer_ids) : volunteer_ids[i] = v})
    /\ \A a \in rows : a.volunteer_id \in VolunteerIds /\ ~a.completed

\* C21: with two sessions inside assign_subservice, the rows of a
\* (subservice, date) key that a reader can see change only in the step in
\* which one call finishes, and then to exactly the rows of that call; so a
\* reader never sees the key emptied and not yet refilled, and after both
\* calls the key holds the rows of one of them.
C21_AssignSubserviceAtomic ==
    [][/\ \A bid \in SubserviceIds, d \in SampleDates :
            KeyRows(assignments', bid, d) # KeyRows(assignments, bid, d) =>
               \E s \in Sessions :
                  /\ pc[s].at = "assigning" /\ pc'[s] = Idle
                  /\ pc[s].subservice_id = bid /\ pc[s].date = d
       /\ \A s \in Sessions :
            (pc[s].at = "assigning" /\ pc'[s] = Idle) =>
               RowsOfCall(KeyRows(assignments', pc[s].subservice_id, pc[s].date),
                          pc[s].volunteer_ids)]_vars

\* C21 witness: a session is inside assign_subservice(1, 2024-06-01, [2, 1])
\* with the old row deleted and one of the two new rows inserted in its
\* transaction, the call of the other session on the key has been refused,
\* and a reader still finds the old row of the key and nothing else.
C21_Witness ==
    /\ \E s \in Sessions :
         /\ pc[s].at = "assigning" /\ pc[s].inserted = 1
         /\ pc[s].subservice_id = 1 /\ pc[s].date = Iso(2024, 6, 1)
         /\ pc[s].volunteer_ids = <<2, 1>>
    /\ last.op = "assign_subservice" /\ last.raised = "OperationalError"
    /\ last.subservice_id = 1 /\ last.date = Iso(2024, 6, 1)
    /\ {a.id : a \in KeyRows(assignments, 1, Iso(2024, 6, 1))} = {1}
    /\ {a.id : a \in KeyRows(pending.assignments, 1, Iso(2024, 6, 1))} = {2}

\* C21 second witness: both calls on the key have returned, and the key holds
\* the two rows of the call that finished last.
C21_WitnessBoth ==
    /\ \A s \in Sessions : pc[s] = Idle
    /\ last.op = "assign_subservice" /\ last.raised = "none"
    /\ last.volunteer_ids = <<2, 1>>
    /\ {a.id : a \in KeyRows(assignments, last.subservice_id, last.date)} = {2, 3}

(***************************************************************************)
(* Properties of the store connection.                                     *)
(***************************************************************************)
\* C22: no connection is left open by a call that has returned or raised: the
\* write lock is never held by a connection whose call is over.
C22_ConnectionsReleased == writer # "abandoned"

\* C22 for add_volunteer alone: the call that the store rejects for its email
\* closes its connection, so the lock is free after it whenever it was free
\* before.
C22_AddVolunteerReleases ==
    [][(last'.op = "add_volunteer" /\ writer = "none") => writer' = "none"]_vars

\* the dates create_service generates for the range a service row stores
RangeDates(s) == Range(GenerateDates(s.start_date, s.end_date))

\* C23: no state that a reader can see holds a service row with a valid date
\* range and without the service_dates rows generated for that range.
C23_ServiceNeverWithoutDates ==
    \A s \in services :
        {sd.date : sd \in DateRowsIn(service_dates, s.id)} = RangeDates(s)

\* C23 for the calls that have returned: the service whose id create_service
\* has returned has the service_dates rows generated for its range.
C23_ReturnedServiceHasDates ==
    (last.op = "create_service" /\ last.raised = "none") =>
        \A s \in services :
            s.id = last.ret =>
               {sd.date : sd \in DateRowsIn(service_dates, s.id)} = RangeDates(s)

(***************************************************************************)
(* Properties of a mapping column that is not a serialized mapping.        *)
(***************************************************************************)
\* two decoded values are the same value
SameDecoded(a, b) == IF a.kind = b.kind THEN (a.kind = "dict" => a = b) ELSE FALSE

\* the row r is read, and reassigned, as the same row with a NULL column is
ReadAsAbsent(r) ==
    LET absent == [r EXCEPT !.assigned_dates = SqlNull] IN
    /\ SameDecoded(ListVolunteersDecode(r), ListVolunteersDecode(absent))
    /\ SameDecoded(GetVolunteerDecode(r), GetVolunteerDecode(absent))
    /\ SameDecoded(ReportDecode(r), ReportDecode(absent))
    /\ \A d \in SampleDates :
         /\ ~VolunteersByDateRaises(d)
         /\ FoundForDate(r, d) = FoundForDate(absent, d)
    /\ \A sid \in ServiceIds :
         ReportKeeps(r, [n |-> sid]) = ReportKeeps(absent, [n |-> sid])
    /\ ~AssignServiceRaises(r.email)
    /\ \A sid \in ServiceIds, l \in RegistryLists :
         AssignServiceJson(r.assigned_dates, sid, l) =
         AssignServiceJson(SqlNull, sid, l)

\* C24: a volunteer whose assigned_dates column is not a serialized mapping
\* (text that is not JSON, or JSON that is not an object) is read by
\* list_volunteers, get_volunteer_by_email, volunteers_by_date and
\* report_volunteers, and reassigned by assign_service, as a volunteer without
\* a mapping, and none of them raises.
C24_CorruptPayloadAbsent ==
    /\ \A r \in volunteers :
         r.assigned_dates.kind \in {"not_json", "json_array"} => ReadAsAbsent(r)
    /\ last.raised \notin {"TypeError", "AttributeError"}

\* C24 for the payloads that json.loads rejects: these are read and
\* reassigned as an absent mapping.
C24_UnparsablePayloadAbsent ==
    \A r \in volunteers : r.assigned_dates.kind = "not_json" => ReadAsAbsent(r)

(***************************************************************************)
(* Properties of the references between tables.                            *)
(***************************************************************************)
\* C25: when add_volunteer, assign_service and update_volunteer are only
\* given ids of services that exist at the call, every key of every stored
\* assigned_dates mapping is str(id) of an existing service.
C25_MappingKeysReferenceServices ==
    \A r \in volunteers :
        \A k \in DictKeys(StoredMapping(r.assigned_dates)) :
            \E s \in services : k = Str(s.id)

\* C25 without deletions of services: the keys reference existing services
\* in every step that is not a delete_service.
C25_KeysReferenceUntilDeletion ==
    [][(C25_MappingKeysReferenceServices /\ last'.op # "delete_service") =>
          C25_MappingKeysReferenceServices']_vars

\* C26: when assign_subservice is only given the id of an existing sub-service
\* and ids of existing volunteers, and create_subservice the id of an existing
\* service, every assignment row names an existing volunteer and an existing
\* sub-service, and every sub-service and service_dates row names an existing
\* service.
C26_ReferencesExist ==
    /\ \A a \in assignments :
         /\ \E v \in volunteers : v.id = a.volunteer_id
         /\ \E b \in subservices : b.id = a.subservice_id
    /\ \A b \in subservices : \E s \in services : s.id = b.service_id
    /\ \A sd \in service_dates : \E s \in services : s.id = sd.service_id

\* C26 witness: delete_service has returned true where two services had a
\* sub-service each with assignments; the rows of the other service are
\* still there.
C26_Witness ==
    /\ last.op = "delete_service" /\ last.raised = "none" /\ last.ret
    /\ seq.subservices = 2 /\ Cardinality(subservices) = 1
    /\ seq.assignments >= 2 /\ Cardinality(assignments) = 1
    /\ Cardinality(service_dates) = 1

\* C26 second witness: delete_volunteer has returned true for one of two
\* volunteers assigned to a sub-service, and the row of the other is left.
C26_WitnessVolunteer ==
    /\ last.op = "delete_volunteer" /\ last.raised = "none" /\ last.ret
    /\ seq.assignments >= 2 /\ Cardinality(assignments) = 1
    /\ Cardinality(volunteers) = 1

\* C27: after assign_subservice(s, d, ids) has returned, every row of (s, d)
\* has completed = false, whatever the rows it replaced had.
C27_ReassignDiscardsCompletion ==
    [][(last'.op = "assign_subservice" /\ last'.raised = "none") =>
         \A a \in KeyRows(assignments', last'.subservice_id, last'.date) :
            ~a.completed]_vars

\* C27 witness: assign_subservice has returned after replacing a completed
\* row of a volunteer, and that volunteer's new row for the key is not
\* completed.
C27_Witness ==
    /\ last.op = "assign_subservice" /\ last.raised = "none"
    /\ \E old \in last.replaced :
         /\ old.completed
         /\ \E a \in KeyRows(assignments, last.subservice_id, last.date) :
              a.volunteer_id = old.volunteer_id /\ ~a.completed

\* the mapping stored for the volunteer of an email; no key when there is none
MappingOf(rows, email) ==
    IF \E r \in rows : r.email = email
    THEN StoredMapping((CHOOSE r \in rows : r.email = email).assigned_dates)
    ELSE PyDict(<<>>)

\* the mapping without the key of service_id
OtherKeys(m, service_id) == DictPop(m, Str(service_id))

\* C28: with two sessions inside assign_service for one email and two service
\* ids, a call that returns sets or clears its own key and leaves every other
\* key as the other call committed it, so that after both calls the mapping
\* reflects both.
C28_NoReassignLost ==
    [][(last'.op = "assign_service" /\ last'.raised = "none") =>
         /\ DictEq(OtherKeys(MappingOf(volunteers', last'.email), last'.service_id),
                   OtherKeys(MappingOf(volunteers, last'.email), last'.service_id))
         /\ (last'.ret /\ Truthy(last'.arg)) =>
               /\ DictHas(MappingOf(volunteers', last'.email), Str(last'.service_id))
               /\ DictGet(MappingOf(volunteers', last'.email), Str(last'.service_id))
                    = last'.arg.items
         /\ ~Truthy(last'.arg) =>
               ~DictHas(MappingOf(volunteers', last'.email), Str(last'.service_id))]_vars

(***************************************************************************)
(* Properties of the Volunteer Assign form.                                *)
(***************************************************************************)
\* the sub-services a volunteer has rows for on a date
AssignedOn(rows, volunteer_id, date_iso) ==
    {a.subservice_id : a \in {x \in rows : x.volunteer_id = volunteer_id
                                            /\ x.date = date_iso}}

\* C29: after "Save Assignments" for a date, each listed volunteer has rows
\* on that date for exactly the sub-service selected for them, and none when
\* their selection is blank.
C29_SaveMatchesForm ==
    [][last'.op = "save_assignments" =>
         \A vid \in DOMAIN last'.sel :
            AssignedOn(assignments', vid, last'.date) =
               IF last'.sel[vid] = PyNone THEN {} ELSE {last'.sel[vid].n}]_vars

\* C29 for the selected sub-service alone: after "Save Assignments" each
\* listed volunteer with a selection has a row for it on the date.
C29_SelectedIsAssigned ==
    [][last'.op = "save_assignments" =>
         \A vid \in DOMAIN last'.sel :
            last'.sel[vid] # PyNone =>
               last'.sel[vid].n \in AssignedOn(assignments', vid, last'.date)]_vars

(***************************************************************************)
(* Properties relating the listing for a date to the mapping read back.    *)
(***************************************************************************)
\* d occurs in a date list of the assigned_dates that get_volunteer_by_email
\* returns for the row's email
InReturnedMapping(r, d) ==
    LET m == GetVolunteerByEmail(r.email).assigned_dates IN
    /\ Truthy(m)
    /\ \E k \in DictKeys(m) : d \in Range(DictGet(m, k))

ListedFor(r, d) ==
    \A res \in VolunteersByDate(d) : \E i \in 1..Len(res) : res[i].id = r.id

\* C30: a volunteer is returned by volunteers_by_date(d) if and only if d
\* occurs in some date list of the mapping get_volunteer_by_email returns for
\* that volunteer, also for a row that carries a legacy scalar assigned_date.
C30_ListedIffInReturnedMapping ==
    \A r \in volunteers, d \in SampleDates :
        ListedFor(r, d) <=> InReturnedMapping(r, d)

\* C30 for the rows without a legacy scalar: listed for d if and only if d is
\* in the mapping read back.
C30_ListedIffInMappingWithoutScalar ==
    \A r \in volunteers, d \in SampleDates :
        r.assigned_date = SqlNull => (ListedFor(r, d) <=> InReturnedMapping(r, d))

====
